---- MODULE Spec2Model ----
(***************************************************************************)
(* Model of the Telegram Spotify downloader bot: the flow controller       *)
(* (bot/telegram_bot.py: download_and_send, download_single_track,         *)
(* download_album, download_playlist), the downloader the bot is built     *)
(* with (bot/simple_youtube_downloader.py) and the stand-alone             *)
(* RenderFriendlyDownloader (bot/render_friendly_downloader.py).           *)
(*                                                                         *)
(* Every await of a handler is one step: the handler's position is pc.     *)
(* The outcome of every external call (yt-dlp, HTTP, Telegram) is drawn    *)
(* nondeterministically.  Strings are abstracted to small sets of names;   *)
(* the temp-file path of a track is identified with the track's name       *)
(* (clean_filename of "artist - name" plus ".mp3", one artist).  The two   *)
(* names differ within their first 20 characters, so the directory scan of *)
(* _download_audio can only find the expected file itself.                 *)
(***************************************************************************)
EXTENDS Integers, Sequences, FiniteSets, TLC

\* ---------------------------------------------------------------- bounds
SmallTracks == 3      \* small collections have 0..SmallTracks tracks
Over == 1             \* the large collection has Cap + Over tracks
MaxFailures == 1      \* failed tracks (no file, or send raised) per collection run
MaxDocs == 4          \* Internet Archive search results offered to the model

\* ------------------------------------------------------ program constants
Cap == 50             \* playlist cap
NumQueries == 6       \* len(search_queries)
MinSize == 1000       \* "At least 1KB"
DocsTried == 3        \* docs[:3]
DemoSize == 114       \* len(mp3_header + mp3_frame)
MsPerSecond == 1000   \* duration_ms // 1000

\* ------------------------------------------------------------ input sets
Names == {"a", "b"}
Durations == {0, 200000, 200999}
Sizes == {MinSize, MinSize + 1}
\* the size of a file yt-dlp wrote: no code of the bot's downloader branches on it
FetchedSizes == {MinSize}
TrackCounts == (0 .. SmallTracks) \cup {Cap + Over}
NoFile == "none"

NameOf(n) == IF n % 2 = 1 THEN "a" ELSE "b"

\* the track entries the resolver builds for a collection of n tracks
CollectionTracks(n) ==
    [k \in 1 .. n |-> [id |-> k, name |-> NameOf(k), artists |-> "Y", duration_ms |-> 0]]

\* context.user_data.get('metadata') when nothing is stored (None)
NoMetadata ==
    [type |-> "none", id |-> 0, name |-> "a", artists |-> "Y", duration_ms |-> 0,
     total_tracks |-> 0, tracks |-> <<>>]

\* get_track_metadata: the metadata of a track (metadata.get('total_tracks', 0) is 0)
TrackMetadata(nm, d) ==
    [type |-> "track", id |-> 0, name |-> nm, artists |-> "Y", duration_ms |-> d,
     total_tracks |-> 0, tracks |-> <<>>]

\* the metadata of a collection with the n track entries the resolver built and the
\* value it stored under 'total_tracks'
CollectionMetadata(t, n, total) ==
    [type |-> t, id |-> 0, name |-> "a", artists |-> "Y", duration_ms |-> 0,
     total_tracks |-> total, tracks |-> CollectionTracks(n)]

\* the total_tracks field of the catalog's album object whose tracks.items holds n
\* entries: the number of items, or more when the album has tracks beyond that page
\* (the two are drawn apart for the small albums only)
ApiTotals(n) == IF n <= SmallTracks THEN {n, n + Over} ELSE {n}

\* get_album_metadata: 'total_tracks': album.get('total_tracks', 0), 'tracks': tracks
GetAlbumMetadata(n, api_total) == CollectionMetadata("album", n, api_total)

\* get_playlist_metadata: 'total_tracks': len(tracks), 'tracks': tracks
GetPlaylistMetadata(n) == CollectionMetadata("playlist", n, Len(CollectionTracks(n)))

\* the metadata the catalog can return
ResolvedMetadata ==
    {TrackMetadata(nm, d) : nm \in Names, d \in Durations}
      \cup UNION {{GetAlbumMetadata(n, t) : t \in ApiTotals(n)} : n \in TrackCounts}
      \cup {GetPlaylistMetadata(n) : n \in TrackCounts}

VARIABLES
    unit,                  \* the part of the program the run drives: "bot", "render", or a helper
    event,                 \* the inbound event of the running (or last) handler
    text,                  \* handle_message: message_text (<<>> in the other handlers)
    demo_index,            \* process_demo_song: demo_index (-1 in the other handlers)
    metadata,              \* context.user_data['metadata']
    spotify_url,           \* context.user_data['spotify_url'] (<<>>: not stored)
    demo_tracks,           \* context.user_data['demo_tracks'], each entry by its link
    resolver_calls,        \* get_metadata calls of the running handler
    resolved,              \* what the latest of them returned: "found", "nothing" ("none": no call)
    quality,               \* the quality argument of download_and_send (<<>>: not called)
    files,                 \* the temp directory: path -> size in bytes
    pc,                    \* position of the running handler
    tracks,                \* download_album / download_playlist: tracks
    total_tracks,          \*   total_tracks
    i,                     \*   loop index (1-based)
    successful_downloads,  \*   successful_downloads
    audio_file,            \* audio_file of the download_* handler
    wf_state,              \* SimpleYouTubeDownloader.download_track: idle, running, returned
    wf_q,                  \*   index of the next query to search
    wf_url,                \*   video_url: 0 (None) or the query that produced it
    wf_searches,           \*   queries searched so far in this call
    wf_last,               \*   raw outcome of the latest search
    wf_fetched,            \*   locator handed to _download_audio (0: no fetch)
    wf_fetch_raw,          \*   raw outcome of that fetch
    wf_first,              \*   first query whose search produced a locator (0: none yet)
    wf_hint,               \*   --audio-quality value of the yt-dlp command (0: no fetch)
    last_msg,              \* text of the status message as last edited
    notices,               \* terminal notices delivered by the running handler
    shown,                 \* kinds of text the user saw in this run, by first appearance
    send_count,            \* send_audio calls issued by the running handler
    send_done,             \* send_audio calls that completed
    last_send,             \* arguments of the latest send_audio call
    attempted,             \* ids of the tracks passed to download_track
    raised,                \* an outbound call of the running handler raised
    escaped,               \* an exception left the handler
    rf_pc,                 \* RenderFriendlyDownloader.download_track position
    rf_invoked,            \*   sources invoked so far
    rf_docs,               \*   identifiers left to try in the archive loop
    rf_tried,              \*   identifiers tried
    rf_result,             \*   returned path (NoFile: None)
    cls,                   \* one call of the link classifier: its input and its results
    art,                   \* one call of _get_best_image: images and the url returned
    fname,                 \* clean_filename applied once and twice to one string
    popular_tracks,        \* DemoSongs.popular_tracks (entries named by their ids)
    dsample,               \* one call of get_random_tracks: count and the list returned
    tier,                  \* one quality selection: the callback data and the hint at the fetch
    plres,                 \* one call of get_playlist_metadata: tracks.items and the result
    mix,                   \* one call of extract_spotify_id on a text with two links
    clog,                  \* a sequence of calls on one DemoSongs object
    own,                   \* the temp_dir shared by two conversations and each conversation\'s download
    loop,                  \* the event loop: who keeps it, and each conversation's position
    agr,                   \* a free text and what the two link recognizers say of it
    ses,                   \* the stored selection state and the messages of one conversation
    disp                   \* a button press and the branch of handle_callback that took it

vars == <<unit, event, text, demo_index, metadata, spotify_url, demo_tracks, resolver_calls, resolved, quality, files, pc, tracks, total_tracks, i, successful_downloads,
          audio_file, wf_state, wf_q, wf_url, wf_searches, wf_last, wf_fetched,
          wf_fetch_raw, wf_first, wf_hint, last_msg, notices, shown, send_count, send_done,
          last_send, attempted, raised, escaped, rf_pc, rf_invoked, rf_docs,
          rf_tried, rf_result, cls, art, fname, popular_tracks, dsample, tier, plres, mix, clog, own, loop, agr, ses, disp>>

botVars == <<event, text, demo_index, metadata, spotify_url, demo_tracks, resolver_calls, resolved, quality, pc, tracks, total_tracks, i, successful_downloads, audio_file,
             last_msg, notices, shown, send_count, send_done, last_send, attempted,
             raised, escaped>>
loopVars == <<tracks, total_tracks, i, successful_downloads>>
wfVars == <<wf_state, wf_q, wf_url, wf_searches, wf_last, wf_fetched, wf_fetch_raw,
            wf_first, wf_hint>>
sendVars == <<send_count, send_done, last_send>>
rfVars == <<rf_pc, rf_invoked, rf_docs, rf_tried, rf_result>>
utilVars == <<cls, art, fname, popular_tracks, dsample, tier, plres, mix, clog, own, loop, agr, ses, disp>>
sessionVars == <<text, demo_index, spotify_url, demo_tracks, resolver_calls, resolved, quality>>

\* ------------------------------------------------------------- characters
\* a string is a sequence of one-character strings
Lower == {"a", "b", "c", "d", "e", "f", "g", "h", "i", "j", "k", "l", "m",
          "n", "o", "p", "q", "r", "s", "t", "u", "v", "w", "x", "y", "z"}
Upper == {"A", "B", "C", "D", "E", "F", "G", "H", "I", "J", "K", "L", "M",
          "N", "O", "P", "Q", "R", "S", "T", "U", "V", "W", "X", "Y", "Z"}
Digits == {"0", "1", "2", "3", "4", "5", "6", "7", "8", "9"}

\* the character class [a-zA-Z0-9]
Alnum == Lower \cup Upper \cup Digits

\* all strings over the alphabet `chars` of length lo .. hi
Strings(chars, lo, hi) == UNION {[1 .. n -> chars] : n \in lo .. hi}

\* --------------------------------------------------------- link classifier
MaxIdLen == 3          \* ids have 1 .. MaxIdLen characters

Kinds == <<"track", "album", "playlist">>

KindText(kind) ==
    CASE kind = "track" -> <<"t", "r", "a", "c", "k">>
      [] kind = "album" -> <<"a", "l", "b", "u", "m">>
      [] kind = "playlist" -> <<"p", "l", "a", "y", "l", "i", "s", "t">>

OpenDot == <<"o", "p", "e", "n", ".">>
SpotifyCom == <<"s", "p", "o", "t", "i", "f", "y", ".", "c", "o", "m">>
SpotifyUri == <<"s", "p", "o", "t", "i", "f", "y">>
Https == <<"h", "t", "t", "p", "s", ":", "/", "/">>
Http == <<"h", "t", "t", "p", ":", "/", "/">>
Slash == <<"/">>
Colon == <<":">>

\* the literal part of the three patterns of a kind in extract_spotify_id, in list order
ExtractPatterns(kind) ==
    << OpenDot \o SpotifyCom \o Slash \o KindText(kind) \o Slash,
       SpotifyCom \o Slash \o KindText(kind) \o Slash,
       SpotifyUri \o Colon \o KindText(kind) \o Colon >>

\* the text at position p of s is the literal lit
LiteralAt(lit, s, p) ==
    /\ p + Len(lit) - 1 <= Len(s)
    /\ \A j \in 1 .. Len(lit) : s[p + j - 1] = lit[j]

\* re.search(lit + "[a-zA-Z0-9]+", s): the positions where the pattern matches
MatchPositions(lit, s) ==
    {p \in 1 .. Len(s) :
        /\ LiteralAt(lit, s, p)
        /\ p + Len(lit) <= Len(s)
        /\ s[p + Len(lit)] \in Alnum}

\* re.search finds a match
Matches(lit, s) == MatchPositions(lit, s) # {}

\* fault variant of the group: it captures one character
GroupLazy(lit, s) ==
    LET p == CHOOSE q \in MatchPositions(lit, s) : \A r \in MatchPositions(lit, s) : q <= r
    IN SubSeq(s, p + Len(lit), p + Len(lit))

\* match.group(1) of the leftmost match: the longest run of [a-zA-Z0-9] after the literal
Group(lit, s) ==
    LET p == CHOOSE q \in MatchPositions(lit, s) : \A r \in MatchPositions(lit, s) : q <= r
        from == p + Len(lit)
        to == CHOOSE e \in from .. Len(s) :
                  /\ \A j \in from .. e : s[j] \in Alnum
                  /\ e = Len(s) \/ s[e + 1] \notin Alnum
    IN SubSeq(s, from, to)

\* return None, None
NoContent == [type |-> "none", id |-> <<>>]

\* the (kind, pattern) pairs in the order extract_spotify_id tries them
PatternOrder == [n \in 1 .. 9 |-> [kind |-> Kinds[((n - 1) \div 3) + 1], pat |-> ((n - 1) % 3) + 1]]

\* fault variant of extract_spotify_id: the match that starts first in the text wins
ExtractSpotifyIdLeftmost(url) ==
    LET Lit(n) == ExtractPatterns(PatternOrder[n].kind)[PatternOrder[n].pat]
        First(n) == CHOOSE q \in MatchPositions(Lit(n), url) :
                        \A r \in MatchPositions(Lit(n), url) : q <= r
        hits == {n \in 1 .. 9 : Matches(Lit(n), url)}
    IN IF hits = {} THEN NoContent
       ELSE LET n == CHOOSE m \in hits :
                        \A k \in hits : First(m) < First(k) \/ (First(m) = First(k) /\ m <= k)
            IN [type |-> PatternOrder[n].kind, id |-> Group(Lit(n), url)]

\* extract_spotify_id(url): content_type and id of the first pattern that matches
ExtractSpotifyId(url) ==
    LET hits == {n \in 1 .. 9 :
                   Matches(ExtractPatterns(PatternOrder[n].kind)[PatternOrder[n].pat], url)}
    IN IF hits = {} THEN NoContent
       ELSE LET n == CHOOSE m \in hits : \A k \in hits : m <= k
                lit == ExtractPatterns(PatternOrder[n].kind)[PatternOrder[n].pat]
            IN [type |-> PatternOrder[n].kind, id |-> Group(lit, url)]

\* the literal alternatives of the five patterns of is_spotify_link, in list order
SpotifyPatterns ==
    << {sch \o OpenDot \o SpotifyCom \o Slash \o KindText(Kinds[k]) \o Slash :
            sch \in {Https, Http}, k \in 1 .. 3},
       {sch \o SpotifyCom \o Slash \o KindText(Kinds[k]) \o Slash :
            sch \in {Https, Http}, k \in 1 .. 3},
       {SpotifyUri \o Colon \o KindText(Kinds[k]) \o Colon : k \in 1 .. 3},
       {OpenDot \o SpotifyCom \o Slash \o KindText(Kinds[k]) \o Slash : k \in 1 .. 3},
       {SpotifyCom \o Slash \o KindText(Kinds[k]) \o Slash : k \in 1 .. 3} >>

\* fault variant of is_spotify_link: only the first three patterns are tried
IsSpotifyLinkSchemed(url) ==
    \E n \in 1 .. 3 : \E lit \in SpotifyPatterns[n] : Matches(lit, url)

\* is_spotify_link(url): some pattern is found in url
IsSpotifyLink(url) ==
    \E n \in 1 .. Len(SpotifyPatterns) : \E lit \in SpotifyPatterns[n] : Matches(lit, url)

\* the five recognized link forms (the first two with either scheme) around an id
Templates == <<"https_open", "http_open", "https_plain", "http_plain", "uri", "open", "plain">>

LinkText(template, kind, id) ==
    CASE template = "https_open" -> Https \o OpenDot \o SpotifyCom \o Slash \o KindText(kind) \o Slash \o id
      [] template = "http_open" -> Http \o OpenDot \o SpotifyCom \o Slash \o KindText(kind) \o Slash \o id
      [] template = "https_plain" -> Https \o SpotifyCom \o Slash \o KindText(kind) \o Slash \o id
      [] template = "http_plain" -> Http \o SpotifyCom \o Slash \o KindText(kind) \o Slash \o id
      [] template = "uri" -> SpotifyUri \o Colon \o KindText(kind) \o Colon \o id
      [] template = "open" -> OpenDot \o SpotifyCom \o Slash \o KindText(kind) \o Slash \o id
      [] template = "plain" -> SpotifyCom \o Slash \o KindText(kind) \o Slash \o id

\* characters of the ids tried: a letter of each case, a digit and a hyphen
IdChars == {"a", "Z", "7", "-"}

\* a classifier call that has not run: the link built and nothing returned yet
ClassifierInput(template, kind, id) ==
    [template |-> template, kind |-> kind, id |-> id, url |-> LinkText(template, kind, id),
     done |-> FALSE, content |-> NoContent, is_link |-> FALSE]

ClassifierInputs ==
    {ClassifierInput(Templates[t], Kinds[k], id) :
        t \in 1 .. Len(Templates), k \in 1 .. 3, id \in Strings(IdChars, 1, MaxIdLen)}

NoClassifier == ClassifierInput("uri", "track", <<>>)

\* free texts: up to MaxFragments pieces of links, put together in any order
MaxFragments == 4
Fragments ==
    << Https, OpenDot, SpotifyCom, SpotifyUri,
       Slash \o KindText("track") \o Slash,
       Colon \o KindText("album") \o Colon,
       Slash \o <<"a", "r", "t", "i", "s", "t">> \o Slash,
       <<"a">>, <<"-">> >>

RECURSIVE Join(_)
Join(picks) == IF picks = <<>> THEN <<>> ELSE Fragments[Head(picks)] \o Join(Tail(picks))

FreeTexts == {Join(picks) : picks \in Strings(1 .. Len(Fragments), 0, MaxFragments)}

\* a text that has not been given to the two recognizers yet
FreeInputs == {[text |-> txt, done |-> FALSE, is_link |-> FALSE, content |-> NoContent] :
                 txt \in FreeTexts}
NoFree == [text |-> <<>>, done |-> FALSE, is_link |-> FALSE, content |-> NoContent]

\* a text that holds two links of different kinds, separated by a space
MixTemplates == {"https_open", "uri", "plain"}
MixIds == << <<"a">>, <<"Z", "7">> >>
MixInput(t1, k1, t2, k2) ==
    [kinds |-> <<k1, k2>>,
     url |-> LinkText(t1, k1, MixIds[1]) \o <<" ">> \o LinkText(t2, k2, MixIds[2]),
     done |-> FALSE, content |-> NoContent]
MixInputs ==
    {MixInput(t1, Kinds[k1], t2, Kinds[k2]) :
        t1 \in MixTemplates, t2 \in MixTemplates,
        k1 \in 1 .. 3, k2 \in (1 .. 3)}
NoMix == [kinds |-> <<"track", "track">>, url |-> <<>>, done |-> FALSE, content |-> NoContent]

\* ------------------------------------------------------- artwork selection
MaxImages == 3         \* image lists have 0 .. MaxImages entries
Null == -1             \* a width or height the catalog gave as null (None)
NoUrl == 0             \* _get_best_image returned None

\* the (width, height) pairs of the candidate images; 0 stands for an absent key
\* (x.get('width', 0))
ImageSizes == {<<10, 10>>, <<20, 5>>, <<5, 40>>, <<40, 5>>, <<0, 10>>, <<Null, Null>>}

\* an images array: the url of an entry is named by its position
Images(sizes) ==
    [k \in 1 .. Len(sizes) |-> [url |-> k, width |-> sizes[k][1], height |-> sizes[k][2]]]

\* key=lambda x: x.get('width', 0) * x.get('height', 0)
Area(x) == x.width * x.height

\* None * ... raises TypeError
KeyRaises(images) ==
    \E k \in 1 .. Len(images) : images[k].width = Null \/ images[k].height = Null

\* fault variant of the sort: of equal keys the later entry comes first
RankLastOnTies(images, k) ==
    1 + Cardinality({j \in 1 .. Len(images) : Area(images[j]) > Area(images[k])})
      + Cardinality({j \in 1 .. Len(images) : j > k /\ Area(images[j]) = Area(images[k])})

\* the place of entry k in sorted(images, key=..., reverse=True); the sort is stable,
\* so entries of equal key keep their order
Rank(images, k) ==
    1 + Cardinality({j \in 1 .. Len(images) : Area(images[j]) > Area(images[k])})
      + Cardinality({j \in 1 .. Len(images) : j < k /\ Area(images[j]) = Area(images[k])})

SortedImages(images) ==
    [r \in 1 .. Len(images) |-> images[CHOOSE k \in 1 .. Len(images) : Rank(images, k) = r]]

\* _get_best_image(images)
GetBestImage(images) ==
    IF images = <<>> THEN NoUrl                       \* if not images: return None
    ELSE IF KeyRaises(images) THEN images[1].url      \* except Exception: first image
    ELSE SortedImages(images)[1].url

ArtworkInputs ==
    {[images |-> Images(sizes), done |-> FALSE, url |-> NoUrl] :
        sizes \in Strings(ImageSizes, 0, MaxImages)}

NoArtwork == [images |-> <<>>, done |-> FALSE, url |-> NoUrl]

\* ---------------------------------------------------- filename sanitization
MaxFilename == 100     \* if len(filename) > 100: filename = filename[:100]
MaxTail == 3           \* the free part of an input has 0 .. MaxTail characters

\* the characters removed by re.sub(r'[<>:"/\\|?*]', '', filename)
Illegal == {"<", ">", ":", "\"", "/", "\\", "|", "?", "*"}

\* the characters of \s that occur in the inputs
Whitespace == {" ", "\t"}

Untitled == <<"u", "n", "t", "i", "t", "l", "e", "d">>

IsLegal(c) == c \notin Illegal

RemoveIllegal(x) == SelectSeq(x, IsLegal)

\* re.sub(r'[\s]+', ' ', filename): every run of whitespace becomes one space
CollapseWhitespace(x) ==
    LET starts(j) == x[j] \notin Whitespace \/ j = 1 \/ x[j - 1] \notin Whitespace
        kept == SelectSeq([j \in 1 .. Len(x) |-> j], starts)
    IN [k \in 1 .. Len(kept) |-> IF x[kept[k]] \in Whitespace THEN " " ELSE x[kept[k]]]

\* filename.strip()
Strip(x) ==
    LET ink == {j \in 1 .. Len(x) : x[j] \notin Whitespace}
    IN IF ink = {} THEN <<>>
       ELSE SubSeq(x, CHOOSE a \in ink : \A j \in ink : a <= j,
                      CHOOSE b \in ink : \A j \in ink : j <= b)

\* filename[:100] when len(filename) > 100
Truncate(x) == IF Len(x) > MaxFilename THEN SubSeq(x, 1, MaxFilename) ELSE x

\* clean_filename(filename)
CleanFilename(x) ==
    LET cut == Truncate(Strip(CollapseWhitespace(RemoveIllegal(x))))
    IN IF cut = <<>> THEN Untitled ELSE cut        \* return filename or "untitled"

\* the characters of the free part of an input: a letter, a space, a tab, a slash
FileChars == {"a", " ", "\t", "/"}

\* inputs: a run of letters of a length around the cap, then a free part
PrefixLengths == {0, MaxFilename - 2, MaxFilename - 1, MaxFilename}

FilenameInputs ==
    {[input |-> [j \in 1 .. n |-> "a"] \o tail, done |-> FALSE, once |-> <<>>, twice |-> <<>>] :
        n \in PrefixLengths, tail \in Strings(FileChars, 0, MaxTail)}

NoFilename == [input |-> <<>>, done |-> FALSE, once |-> <<>>, twice |-> <<>>]

\* -------------------------------------------------------------- demo catalog
SeedLen == 12          \* entries of popular_tracks after __init__
MaxCustom == 1         \* custom tracks appended to the list

\* self.popular_tracks after __init__
SeedTracks == [k \in 1 .. SeedLen |-> k]

\* the count arguments tried (negative, zero, up to and beyond the list)
Counts == -1 .. (SeedLen + MaxCustom + 1)

\* fault variant of the clamp: one entry too few
ClampShort(count, len) == IF count > len THEN len - 1 ELSE count

\* if count > len(self.popular_tracks): count = len(self.popular_tracks)
Clamp(count, len) == IF count > len THEN len ELSE count

\* the entries of list at the positions of set, in list order
Pick(list, set) ==
    LET IsPicked(j) == j \in set
    IN LET at == SelectSeq([j \in 1 .. Len(list) |-> j], IsPicked)
       IN [k \in 1 .. Len(at) |-> list[at[k]]]

\* random.sample(population, k) for 0 <= k <= len(population): the entries at k distinct
\* positions.  The order of the draw is not modelled: every result is listed in list
\* order (the callers depend on the positions drawn and on the length only).
RandomSample(population, k) ==
    {Pick(population, set) :
        set \in {t \in SUBSET (1 .. Len(population)) : Cardinality(t) = k}}

\* the lists get_random_tracks(count) can return
GetRandomTracks(list, count) ==
    LET k == Clamp(count, Len(list))
    IN IF k < 0                                  \* random.sample raises ValueError
       THEN {SubSeq(list, 1, Len(list) + k)}     \* return self.popular_tracks[:count]
       ELSE RandomSample(list, k)

DemoInputs ==
    {[count |-> c, done |-> FALSE, before |-> <<>>, result |-> <<>>] : c \in Counts}

NoSample == [count |-> 0, done |-> FALSE, before |-> <<>>, result |-> <<>>]

\* sequences of calls on one DemoSongs object
MaxAppend == 2         \* add_custom_track calls in one sequence
MaxCalls == 4          \* calls in one sequence
NoEntry == 0           \* get_track_by_index returned None

\* the custom entries offered to add_custom_track (named by ids beyond the seed)
CustomEntries == {SeedLen + 1, SeedLen + 2}

\* fault variant: a negative index counts from the end of the list
GetTrackByIndexWrapped(list, index) ==
    IF index < Len(list) THEN list[((index + Len(list)) % Len(list)) + 1] ELSE NoEntry

\* get_track_by_index(index): the entry at position index (from 0), or None
GetTrackByIndex(list, index) ==
    IF 0 <= index /\ index < Len(list) THEN list[index + 1] ELSE NoEntry

\* search_demo_tracks(query): the entries whose name or artist holds the query, in
\* list order; a query is given by the set of entries it is found in
SearchDemoTracks(list, found_in) ==
    LET Hit(e) == e \in found_in
    IN SelectSeq(list, Hit)

Queries == {{}, {1, SeedLen}, {2, SeedLen + 1}}
CatalogCounts == {-1, 1, SeedLen + MaxAppend + 1}

\* the log of a sequence of calls: the entries appended, the latest
\* get_track_by_index call (its index, the length of the list then, its result),
\* the length of the latest list returned by a search or a sample
NoLog == [appended |-> <<>>, index |-> 0, len |-> 0, got |-> NoEntry, asked |-> FALSE,
          returned |-> 0, calls |-> 0]

\* ------------------------------------------------------- playlist resolution
MaxItems == 3          \* playlist objects have 0 .. MaxItems entries in tracks.items

\* what item.get('track') gives for an entry: nothing (the key is absent or null),
\* an object that is not a track (an episode, or an object without a type), a track
ItemKinds == {"nothing", "episode", "untyped", "track"}

\* the entry at position j of tracks.items; a nested object carries j as its id
Item(kind, j) ==
    [present |-> kind # "nothing",
     track |-> [type |-> IF kind = "untyped" THEN "none" ELSE kind, id |-> j]]

PlaylistItems ==
    UNION {{[j \in 1 .. n |-> Item(kinds[j], j)] : kinds \in [1 .. n -> ItemKinds]}
           : n \in 0 .. MaxItems}

\* fault variant: every nested object is kept
KeptAny(item) == item.present

\* get_playlist_metadata: if track and track.get('type') == 'track'
Kept(item) == item.present /\ item.track.type = "track"

\* get_playlist_metadata: the loop over tracks.items; the tracks are named by their ids
PlaylistTracks(items) ==
    LET kept == SelectSeq(items, Kept)
    IN [k \in 1 .. Len(kept) |-> kept[k].track.id]

\* get_playlist_metadata(playlist_id) for a playlist object with these items
ResolvePlaylist(items) ==
    [failed |-> FALSE, tracks |-> PlaylistTracks(items),
     total_tracks |-> Len(PlaylistTracks(items))]

PlaylistInputs == {[items |-> items, done |-> FALSE, result |-> ResolvePlaylist(<<>>)]
                   : items \in PlaylistItems}
NoPlaylist == [items |-> <<>>, done |-> FALSE, result |-> ResolvePlaylist(<<>>)]

\* ------------------------------------------------------------ quality tiers
High == <<"h", "i", "g", "h">>
Medium == <<"m", "e", "d", "i", "u", "m">>
Low == <<"l", "o", "w">>
NoQuality == <<>>
Mp3 == <<"m", "p", "3">>

\* QUALITY_SETTINGS of config/settings.py
HighBitrate == 320
MediumBitrate == 192
LowBitrate == 128
QualitySettings ==
    [t \in {High, Medium, Low} |->
        [bitrate |-> CASE t = High -> HighBitrate [] t = Medium -> MediumBitrate
                           [] t = Low -> LowBitrate,
         format |-> Mp3]]

\* quality_settings of _download_audio: the values of --audio-quality, in K
HighAudioQuality == 320
MediumAudioQuality == 192
LowAudioQuality == 128
DefaultAudioQuality == 192

\* fault variant: an unknown tier gets the lowest hint
AudioQualityLowest(q) ==
    IF q = High THEN HighAudioQuality
    ELSE IF q = Medium THEN MediumAudioQuality
    ELSE LowAudioQuality

\* quality_settings.get(quality, ['--audio-quality', '192K'])
AudioQuality(q) ==
    IF q = High THEN HighAudioQuality
    ELSE IF q = Medium THEN MediumAudioQuality
    ELSE IF q = Low THEN LowAudioQuality
    ELSE DefaultAudioQuality

\* '--audio-format', 'mp3'
AudioFormat == Mp3

\* callback data of a quality selection: the three buttons, and data the keyboard
\* does not offer
QualityPrefix == <<"q", "u", "a", "l", "i", "t", "y", "_">>
TierTexts == {High, Medium, Low, <<"m", "a", "x">>, <<"H", "i", "g", "h">>, <<>>}
TierInputs ==
    {[data |-> QualityPrefix \o t, quality |-> NoQuality, hint |-> 0, format |-> <<>>,
      done |-> FALSE] : t \in TierTexts}
NoTier == [data |-> <<>>, quality |-> NoQuality, hint |-> 0, format |-> <<>>, done |-> FALSE]

NoSend == [title |-> "none", performer |-> "none", duration |-> -1]

\* ------------------------------------------------------------ file system
WriteFile(fs, p, s) == [q \in (DOMAIN fs) \cup {p} |-> IF q = p THEN s ELSE fs[q]]
RemoveFile(fs, p) == [q \in (DOMAIN fs) \ {p} |-> fs[q]]
NoFiles == [q \in {} |-> 0]

\* clean_filename(f"{artist_name} - {track_name}") + ".mp3" in temp_dir
PathOf(name) == name

\* ------------------------------------------- two conversations, one temp_dir
\* self.temp_dir = tempfile.gettempdir(): one directory for every conversation
Conversations == {"A", "B"}

ScanPrefix == 20       \* filename[:20] in the directory scan
Ext == <<".", "m", "p", "3">>

\* "artist - title" of the tracks requested: two that differ after their first
\* ScanPrefix characters, and a short one
LongStem == [k \in 1 .. ScanPrefix |-> "a"]
Requested == {LongStem \o <<"1">>, LongStem \o <<"2">>, <<"b">>}

\* clean_filename(f"{artist_name} - {track_name}") with the extension yt-dlp gives
ExpectedFile(name) == CleanFilename(name) \o Ext

\* sub in s
Within(sub, s) ==
    \E k \in 0 .. (Len(s) - Len(sub)) : SubSeq(s, k + 1, k + Len(sub)) = sub

\* file.endswith('.mp3')
EndsWithExt(file) ==
    Len(file) >= Len(Ext) /\ SubSeq(file, Len(file) - Len(Ext) + 1, Len(file)) = Ext

\* filename[:20]
Head20(filename) ==
    IF Len(filename) > ScanPrefix THEN SubSeq(filename, 1, ScanPrefix) ELSE filename

\* the paths _download_audio can return after returncode == 0: the expected file
\* when it exists, otherwise any file of the directory scan (os.listdir gives no
\* order), otherwise None
FoundFiles(name, dir) ==
    LET filename == CleanFilename(name)
        scanned == {file \in DOMAIN dir : Within(Head20(filename), file) /\ EndsWithExt(file)}
    IN IF ExpectedFile(name) \in DOMAIN dir THEN {ExpectedFile(name)}
       ELSE IF scanned # {} THEN scanned
       ELSE {<<>>}

NoPath == <<>>
IdleConversation == [pc |-> "idle", name |-> <<>>, path |-> NoPath]
NoShared == [dir |-> NoFiles, conv |-> [c \in Conversations |-> IdleConversation]]

\* ------------------------------------------- one conversation, many messages
\* context.user_data of one conversation and the messages of the bot that still
\* carry buttons.  A stored metadata is named by what it was resolved from: a link
\* the user sent, or an entry of the demo catalog.
MaxMessages == 3       \* messages with buttons in one conversation
SentLinks == {1, 2}    \* two different links the user can send

Content(from, n) == [from |-> from, n |-> n]
NoStored == Content("none", 0)      \* context.user_data.get('metadata') is None

DemoCount == 6         \* self.demo_songs.get_random_tracks(6)

\* two of the lists get_random_tracks(6) can return
Samples == {[k \in 1 .. DemoCount |-> k], [k \in 1 .. DemoCount |-> k + DemoCount]}

\* callback data
DemoSongsToken == <<"d", "e", "m", "o", "_", "s", "o", "n", "g", "s">>
HelpToken == <<"h", "e", "l", "p">>
BackStartToken == <<"b", "a", "c", "k", "_", "s", "t", "a", "r", "t">>
CancelToken == <<"c", "a", "n", "c", "e", "l">>
DemoPrefix == <<"d", "e", "m", "o", "_">>

\* str(i) for one digit
DigitChars == <<"0", "1", "2", "3", "4", "5", "6", "7", "8", "9">>

\* the callback_data of every button the bot builds: the start, help and prompt
\* keyboards, the quality menu, and the demo list of up to DemoCount tracks
EmittedTokens ==
    {DemoSongsToken, HelpToken, BackStartToken, CancelToken}
      \cup {QualityPrefix \o q : q \in {High, Medium, Low}}
      \cup {DemoPrefix \o <<DigitChars[j + 1]>> : j \in 0 .. (DemoCount - 1)}

\* a button press that handle_callback has not taken yet
PressInputs == {[data |-> data, done |-> FALSE, route |-> "none"] : data \in EmittedTokens}
NoPress == [data |-> <<>>, done |-> FALSE, route |-> "none"]

\* a message of the bot: the quality menu of a content, the help prompt with its
\* "Try Demo Songs" button, a demo list, or a message whose buttons are gone
Message(kind, menu, list) == [kind |-> kind, menu |-> menu, list |-> list]

\* the latest selection: what the pressed button showed and what was processed;
\* cancelled: the contents whose menu was cancelled and that were not sent again
NoUse == [kind |-> "none", shown |-> NoStored, got |-> NoStored, started |-> FALSE]

NoSession == [metadata |-> NoStored, demo_tracks |-> <<>>, msgs |-> <<>>, used |-> NoUse,
              cancelled |-> {}]

\* --------------------------------------------- two conversations, one event loop
\* Handlers are coroutines of one event loop: a handler gives the loop away at an
\* await, and a call that is not awaited keeps the loop until it returns.  Handlers
\* of different conversations are taken to interleave at their awaits.
NoOne == "none"
NoLoop == [blocked |-> NoOne, pc |-> [c \in Conversations |-> "idle"]]

Init ==
    /\ unit \in {"bot", "render", "classifier", "artwork", "filename", "demo", "tier",
               "playlist", "precedence", "catalog", "shared", "loop", "agree", "session",
               "dispatch"}
    /\ tier \in (IF unit = "tier" THEN TierInputs ELSE {NoTier})
    /\ plres \in (IF unit = "playlist" THEN PlaylistInputs ELSE {NoPlaylist})
    /\ mix \in (IF unit = "precedence" THEN MixInputs ELSE {NoMix})
    /\ clog = NoLog
    /\ own = NoShared
    /\ loop = NoLoop
    /\ ses = NoSession
    /\ disp \in (IF unit = "dispatch" THEN PressInputs ELSE {NoPress})
    /\ agr \in (IF unit = "agree" THEN FreeInputs ELSE {NoFree})
    /\ cls \in (IF unit = "classifier" THEN ClassifierInputs ELSE {NoClassifier})
    /\ art \in (IF unit = "artwork" THEN ArtworkInputs ELSE {NoArtwork})
    /\ fname \in (IF unit = "filename" THEN FilenameInputs ELSE {NoFilename})
    /\ popular_tracks = SeedTracks
    /\ dsample \in (IF unit = "demo" THEN DemoInputs ELSE {NoSample})
    /\ event = "none"
    /\ text = <<>>
    /\ demo_index = -1
    /\ metadata = NoMetadata
    /\ spotify_url = <<>>
    /\ demo_tracks = <<>>
    /\ resolver_calls = 0
    /\ resolved = "none"
    /\ quality = NoQuality
    /\ files = NoFiles
    /\ pc = "idle"
    /\ tracks = <<>>
    /\ total_tracks = 0
    /\ i = 0
    /\ successful_downloads = 0
    /\ audio_file = NoFile
    /\ wf_state = "idle"
    /\ wf_q = 0
    /\ wf_url = 0
    /\ wf_searches = <<>>
    /\ wf_last = "none"
    /\ wf_fetched = 0
    /\ wf_fetch_raw = "none"
    /\ wf_first = 0
    /\ wf_hint = 0
    /\ last_msg = "none"
    /\ notices = <<>>
    /\ shown = <<>>
    /\ send_count = 0
    /\ send_done = 0
    /\ last_send = NoSend
    /\ attempted = <<>>
    /\ raised = FALSE
    /\ escaped = FALSE
    /\ rf_pc = "idle"
    /\ rf_invoked = <<>>
    /\ rf_docs = 0
    /\ rf_tried = 0
    /\ rf_result = NoFile

Quiescent == pc \in {"idle", "done"}

\* ghost state of one handler run, cleared when the next inbound event is taken
ResetRun ==
    /\ notices' = <<>>
    /\ shown' = <<>>
    /\ send_count' = 0
    /\ send_done' = 0
    /\ last_send' = NoSend
    /\ attempted' = <<>>
    /\ resolver_calls' = 0
    /\ resolved' = "none"
    /\ raised' = FALSE
    /\ escaped' = FALSE

ResetWaterfall ==
    /\ wf_state' = "idle"
    /\ wf_q' = 0
    /\ wf_url' = 0
    /\ wf_searches' = <<>>
    /\ wf_last' = "none"
    /\ wf_fetched' = 0
    /\ wf_fetch_raw' = "none"
    /\ wf_first' = 0
    /\ wf_hint' = 0

\* the log of kinds seen so far, with `kind` added at its first appearance
Note(log, kind) ==
    IF \E k \in 1 .. Len(log) : log[k] = kind THEN log ELSE Append(log, kind)

\* a terminal notice reached the user
Deliver(kind) ==
    /\ last_msg' = kind
    /\ notices' = Append(notices, kind)
    /\ shown' = Note(shown, kind)

\* a transient status text reached the user
Status(kind) ==
    /\ last_msg' = kind
    /\ shown' = Note(shown, kind)
    /\ UNCHANGED notices

\* the edit raised: nothing reached the user
Rejected ==
    /\ raised' = TRUE
    /\ UNCHANGED <<last_msg, notices, shown>>

\* ------------------------------------------------------------ download_and_send
\* fault variant: the stored metadata is not tested
HasMetadataAlways(md) == TRUE

\* download_and_send: `if not metadata` is false
HasMetadata(md) == md.type # "none"

\* download_and_send: the branch taken for the stored metadata
Dispatch(md) ==
    IF ~HasMetadata(md) THEN "stale_notice"
    ELSE IF md.type = "track" THEN "st_processing"
    ELSE "col_processing"

\* ------------------------------------------------------------ inbound events
\* the texts sent to the bot: a link of each kind, a word, a link form without an id
TrackLink == LinkText("https_open", "track", <<"a">>)
AlbumLink == LinkText("uri", "album", <<"a">>)
PlaylistLink == LinkText("plain", "playlist", <<"a">>)
BotTexts ==
    {TrackLink, AlbumLink, PlaylistLink \o <<" ">>, <<" ", "h", "i">>,
     LinkText("uri", "track", <<"-">>)}

\* the spotify_url of the entries of popular_tracks: all are track links
DemoLink == LinkText("https_open", "track", <<"Z">>)

Tokens ==
    {DemoSongsToken, HelpToken, BackStartToken, CancelToken,
     DemoPrefix \o <<"0">>, DemoPrefix \o <<"5">>, DemoPrefix \o <<"6">>,
     DemoPrefix \o <<"x">>,
     QualityPrefix \o High, QualityPrefix \o <<"m", "a", "x">>,
     <<"n", "o", "o", "p">>}

\* data.startswith(prefix)
StartsWith(data, prefix) == LiteralAt(prefix, data, 1)

\* fault variant of handle_callback: the demo_ prefix is tested before demo_songs
RoutePrefixFirst(data) ==
    IF StartsWith(data, DemoPrefix) THEN "process_demo_song"
    ELSE IF data = DemoSongsToken THEN "show_demo_songs"
    ELSE IF data = HelpToken THEN "show_help"
    ELSE IF data = BackStartToken THEN "show_start_menu"
    ELSE IF StartsWith(data, QualityPrefix) THEN "process_quality_selection"
    ELSE IF data = CancelToken THEN "cancel"
    ELSE "none"

\* handle_callback: the handler the callback data is routed to ("none": no branch)
Route(data) ==
    IF data = DemoSongsToken THEN "show_demo_songs"
    ELSE IF data = HelpToken THEN "show_help"
    ELSE IF data = BackStartToken THEN "show_start_menu"
    ELSE IF StartsWith(data, DemoPrefix) THEN "process_demo_song"
    ELSE IF StartsWith(data, QualityPrefix) THEN "process_quality_selection"
    ELSE IF data = CancelToken THEN "cancel"
    ELSE "none"

\* query.data.split("_")[1]
Field(data) ==
    LET IsSep(j) == data[j] = "_"
        seps == SelectSeq([j \in 1 .. Len(data) |-> j], IsSep)
    IN SubSeq(data, seps[1] + 1, IF Len(seps) >= 2 THEN seps[2] - 1 ELSE Len(data))

DigitValue(c) ==
    CASE c = "0" -> 0 [] c = "1" -> 1 [] c = "2" -> 2 [] c = "3" -> 3 [] c = "4" -> 4
      [] c = "5" -> 5 [] c = "6" -> 6 [] c = "7" -> 7 [] c = "8" -> 8 [] c = "9" -> 9

\* int(s) for a string of digits
RECURSIVE DigitsValue(_)
DigitsValue(str) ==
    IF str = <<>> THEN 0
    ELSE 10 * DigitsValue(SubSeq(str, 1, Len(str) - 1)) + DigitValue(str[Len(str)])

\* int(s): ok is FALSE when int raises ValueError
ParseInt(str) ==
    IF str # <<>> /\ \A j \in 1 .. Len(str) : str[j] \in Digits
    THEN [ok |-> TRUE, value |-> DigitsValue(str)]
    ELSE [ok |-> FALSE, value |-> 0]

\* Route, is_spotify_link and extract_spotify_id tabulated for the inputs of the bot
RouteOf == [data \in Tokens |-> Route(data)]
Messages == {Strip(txt) : txt \in BotTexts}
IsLinkOf == [txt \in Messages |-> IsSpotifyLink(txt)]
ContentOf == [url \in Messages \cup {DemoLink} |-> ExtractSpotifyId(url)]

\* get_metadata(spotify_url): None, or the metadata of the kind extract_spotify_id finds
GetMetadata(url) ==
    LET content == ContentOf[url]
    IN {NoMetadata} \cup {md \in ResolvedMetadata : md.type = content.type}

\* an update is taken by its handler: the state of the previous run is cleared
NewEvent(kind) ==
    /\ unit = "bot"
    /\ Quiescent
    /\ event' = kind
    /\ ResetWaterfall
    /\ tracks' = <<>>
    /\ total_tracks' = 0
    /\ i' = 0
    /\ successful_downloads' = 0
    /\ audio_file' = NoFile

NoCalls ==
    /\ send_count' = 0
    /\ send_done' = 0
    /\ last_send' = NoSend
    /\ attempted' = <<>>
    /\ resolver_calls' = 0
    /\ resolved' = "none"

\* the first outbound call of a handler delivered a terminal notice
FirstDeliver(kind) ==
    /\ NoCalls
    /\ last_msg' = kind
    /\ notices' = <<kind>>
    /\ shown' = <<kind>>
    /\ raised' = FALSE
    /\ escaped' = FALSE

\* the first outbound call of a handler delivered a transient status text
FirstStatus(kind) ==
    /\ NoCalls
    /\ last_msg' = kind
    /\ notices' = <<>>
    /\ shown' = <<kind>>
    /\ raised' = FALSE
    /\ escaped' = FALSE

\* the first outbound call of a handler raised; esc: no except clause encloses it
FirstRejected(esc) ==
    /\ NoCalls
    /\ raised' = TRUE
    /\ escaped' = esc
    /\ notices' = <<>>
    /\ shown' = <<>>
    /\ UNCHANGED last_msg

\* the handler returned without an outbound call
Silent ==
    /\ NoCalls
    /\ raised' = FALSE
    /\ escaped' = FALSE
    /\ notices' = <<>>
    /\ shown' = <<>>
    /\ UNCHANGED last_msg

\* fault variant of handle_message: every text is passed to process_spotify_link
MessageBranchAlways(is_link) == "link"

\* handle_message: if is_spotify_link(message_text) ... else ...
MessageBranch(is_link) == IF is_link THEN "link" ELSE "prompt"

\* handle_message: the stripped text is classified; a link gets the "Analyzing
\* Spotify link..." reply of process_spotify_link, any other text the help prompt
HandleMessage ==
    /\ NewEvent("text")
    /\ \E txt \in Messages :
         /\ text' = txt
         /\ IF MessageBranch(IsLinkOf[txt]) = "link"
            THEN \/ FirstStatus("analyzing") /\ pc' = "psl_try"
                 \/ FirstRejected(TRUE) /\ pc' = "done"
            ELSE \/ FirstDeliver("help_prompt") /\ pc' = "done"
                 \/ FirstRejected(TRUE) /\ pc' = "done"
    /\ demo_index' = -1
    /\ quality' = NoQuality
    /\ UNCHANGED <<unit, metadata, spotify_url, demo_tracks, files, rfVars, utilVars>>

\* fault variant of process_spotify_link: the result of get_metadata is not tested
AfterResolveUntested(md) == "psl_menu"

\* process_spotify_link: `if not metadata` after get_metadata returned md
AfterResolve(md) == IF md = NoMetadata THEN "psl_notfound" ELSE "psl_menu"

\* process_spotify_link: extract_spotify_id, then get_metadata is awaited and a
\* metadata found is stored with the link
PslTry ==
    /\ pc = "psl_try"
    /\ IF ContentOf[text] = NoContent
       THEN /\ \/ Deliver("invalid_link") /\ pc' = "done" /\ UNCHANGED raised
               \/ Rejected /\ pc' = "psl_except"
            /\ UNCHANGED <<metadata, spotify_url, resolver_calls, resolved>>
       ELSE /\ resolver_calls' = resolver_calls + 1
            /\ \E md \in GetMetadata(text) :
                 /\ resolved' = IF md = NoMetadata THEN "nothing" ELSE "found"
                 /\ pc' = AfterResolve(md)
                 /\ IF AfterResolve(md) = "psl_menu"
                    THEN metadata' = md /\ spotify_url' = text
                    ELSE UNCHANGED <<metadata, spotify_url>>
            /\ UNCHANGED <<last_msg, notices, shown, raised>>
    /\ UNCHANGED <<unit, event, text, demo_index, demo_tracks, quality, files, loopVars,
                   audio_file, wfVars, sendVars, attempted, escaped, rfVars, utilVars>>

\* process_spotify_link: "Could not fetch metadata"
PslNotFound ==
    /\ pc = "psl_notfound"
    /\ \/ Deliver("metadata_failed") /\ pc' = "done" /\ UNCHANGED raised
       \/ Rejected /\ pc' = "psl_except"
    /\ UNCHANGED <<unit, event, metadata, files, loopVars, audio_file, wfVars, sendVars,
                   attempted, escaped, rfVars, utilVars, sessionVars>>

\* process_spotify_link: the metadata summary with the quality choices
PslMenu ==
    /\ pc = "psl_menu"
    /\ \/ Deliver("quality_menu") /\ pc' = "done" /\ UNCHANGED raised
       \/ Rejected /\ pc' = "psl_except"
    /\ UNCHANGED <<unit, event, metadata, files, loopVars, audio_file, wfVars, sendVars,
                   attempted, escaped, rfVars, utilVars, sessionVars>>

\* process_spotify_link, except Exception: "Error processing link: ..."
PslExcept ==
    /\ pc = "psl_except"
    /\ pc' = "done"
    /\ \/ Deliver("link_error") /\ UNCHANGED <<raised, escaped>>
       \/ Rejected /\ escaped' = TRUE
    /\ UNCHANGED <<unit, event, metadata, files, loopVars, audio_file, wfVars, sendVars,
                   attempted, rfVars, utilVars, sessionVars>>

\* the stored list after show_demo_songs: the links of the tracks get_random_tracks(6)
\* returned (every entry has the same kind of link, so the list is given by its length)
StoredDemoTracks(list) == [k \in 1 .. Clamp(DemoCount, Len(list)) |-> DemoLink]

\* handle_callback -> show_demo_songs: the sample is stored, then the menu is shown
ShowDemoSongs ==
    /\ NewEvent("menu")
    /\ \E data \in Tokens : RouteOf[data] = "show_demo_songs"
    /\ demo_tracks' = StoredDemoTracks(popular_tracks)
    /\ FirstDeliver("demo_menu") \/ FirstRejected(TRUE)
    /\ pc' = "done"
    /\ text' = <<>>
    /\ demo_index' = -1
    /\ quality' = NoQuality
    /\ UNCHANGED <<unit, metadata, spotify_url, files, rfVars, utilVars>>

\* handle_callback -> show_help, show_start_menu
ShowHelp ==
    /\ NewEvent("menu")
    /\ \E data \in Tokens :
         /\ RouteOf[data] \in {"show_help", "show_start_menu"}
         /\ FirstDeliver(RouteOf[data]) \/ FirstRejected(TRUE)
    /\ pc' = "done"
    /\ text' = <<>>
    /\ demo_index' = -1
    /\ quality' = NoQuality
    /\ UNCHANGED <<unit, metadata, spotify_url, demo_tracks, files, rfVars, utilVars>>

\* handle_callback, query.data == "cancel"
Cancel ==
    /\ NewEvent("cancel")
    /\ \E data \in Tokens : RouteOf[data] = "cancel"
    /\ FirstDeliver("cancelled") \/ FirstRejected(TRUE)
    /\ pc' = "done"
    /\ text' = <<>>
    /\ demo_index' = -1
    /\ quality' = NoQuality
    /\ UNCHANGED <<unit, metadata, spotify_url, demo_tracks, files, rfVars, utilVars>>

\* handle_callback: no branch matches query.data
UnroutedCallback ==
    /\ NewEvent("unrouted")
    /\ \E data \in Tokens : RouteOf[data] = "none"
    /\ Silent
    /\ pc' = "done"
    /\ text' = <<>>
    /\ demo_index' = -1
    /\ quality' = NoQuality
    /\ UNCHANGED <<unit, metadata, spotify_url, demo_tracks, files, rfVars, utilVars>>

\* handle_callback -> process_demo_song: the index is parsed and compared with the
\* length of the stored list
ProcessDemoSong ==
    /\ NewEvent("demo")
    /\ \E data \in Tokens :
         /\ RouteOf[data] = "process_demo_song"
         /\ LET idx == ParseInt(Field(data))
            IN IF ~idx.ok                                 \* int() raised: except Exception
               THEN /\ FirstDeliver("demo_error") \/ FirstRejected(TRUE)
                    /\ pc' = "done"
                    /\ demo_index' = -1
               ELSE IF idx.value < Len(demo_tracks)
               THEN /\ demo_index' = idx.value
                    /\ \/ FirstStatus("demo_processing") /\ pc' = "psld_resolve"
                       \/ FirstRejected(FALSE) /\ pc' = "pds_except"
               ELSE /\ Silent                             \* no else branch
                    /\ pc' = "done"
                    /\ demo_index' = idx.value
    /\ text' = <<>>
    /\ quality' = NoQuality
    /\ UNCHANGED <<unit, metadata, spotify_url, demo_tracks, files, rfVars, utilVars>>

\* process_spotify_link_direct: get_metadata is awaited; a metadata found is stored and
\* download_and_send(query, context, 'medium') is entered
PsldResolve ==
    /\ pc = "psld_resolve"
    /\ resolver_calls' = resolver_calls + 1
    /\ \E md \in GetMetadata(demo_tracks[demo_index + 1]) :
         IF md = NoMetadata
         THEN /\ pc' = "psld_notfound"
              /\ resolved' = "nothing"
              /\ UNCHANGED <<metadata, spotify_url, quality>>
         ELSE /\ resolved' = "found"
              /\ quality' = Medium              \* download_and_send(query, context, 'medium')
              /\ metadata' = md
              /\ spotify_url' = demo_tracks[demo_index + 1]
              /\ pc' = Dispatch(md)
    /\ UNCHANGED <<unit, event, text, demo_index, demo_tracks, files, loopVars, audio_file,
                   wfVars, last_msg, notices, shown, sendVars, attempted, raised, escaped,
                   rfVars, utilVars>>

\* process_spotify_link_direct: "Could not fetch metadata for demo track."
PsldNotFound ==
    /\ pc = "psld_notfound"
    /\ \/ Deliver("demo_metadata_failed") /\ pc' = "done" /\ UNCHANGED raised
       \/ Rejected /\ pc' = "psld_except"
    /\ UNCHANGED <<unit, event, metadata, files, loopVars, audio_file, wfVars, sendVars,
                   attempted, escaped, rfVars, utilVars, sessionVars>>

\* process_spotify_link_direct, except Exception: "Error: ..."
PsldExcept ==
    /\ pc = "psld_except"
    /\ \/ Deliver("demo_link_error") /\ pc' = "done" /\ UNCHANGED raised
       \/ Rejected /\ pc' = "pds_except"
    /\ UNCHANGED <<unit, event, metadata, files, loopVars, audio_file, wfVars, sendVars,
                   attempted, escaped, rfVars, utilVars, sessionVars>>

\* process_demo_song, except Exception: "Error processing demo song: ..."
PdsExcept ==
    /\ pc = "pds_except"
    /\ pc' = "done"
    /\ \/ Deliver("demo_error") /\ UNCHANGED <<raised, escaped>>
       \/ Rejected /\ escaped' = TRUE
    /\ UNCHANGED <<unit, event, metadata, files, loopVars, audio_file, wfVars, sendVars,
                   attempted, rfVars, utilVars, sessionVars>>

\* -------------------------------------------------------- quality selection
\* handle_callback with quality_<tier> -> process_quality_selection -> download_and_send
QualitySelection ==
    /\ NewEvent("quality")
    /\ \E data \in Tokens :
         /\ RouteOf[data] = "process_quality_selection"
         /\ quality' = Field(data)          \* query.data.split("_")[1]
    /\ ResetRun
    /\ pc' = Dispatch(metadata)
    /\ text' = <<>>
    /\ demo_index' = -1
    /\ UNCHANGED <<unit, metadata, spotify_url, demo_tracks, files, last_msg, rfVars, utilVars>>

\* download_and_send, "No metadata found. Please try again."
StaleNotice ==
    /\ pc = "stale_notice"
    /\ \/ Deliver("no_metadata") /\ pc' = "done" /\ UNCHANGED <<raised, escaped>>
       \/ /\ Rejected
          /\ IF event = "demo"        \* caught by process_spotify_link_direct
             THEN pc' = "psld_except" /\ UNCHANGED escaped
             ELSE pc' = "done" /\ escaped' = TRUE
    /\ UNCHANGED <<unit, event, metadata, files, loopVars, audio_file, wfVars, sendVars,
                   attempted, rfVars, utilVars, sessionVars>>

\* download_and_send, except Exception: "Download failed: ..."
DasExcept ==
    /\ pc = "das_except"
    /\ \/ Deliver("das_failed") /\ pc' = "done" /\ UNCHANGED <<raised, escaped>>
       \/ /\ Rejected
          /\ IF event = "demo"        \* caught by process_spotify_link_direct
             THEN pc' = "psld_except" /\ UNCHANGED escaped
             ELSE pc' = "done" /\ escaped' = TRUE
    /\ UNCHANGED <<unit, event, metadata, files, loopVars, audio_file, wfVars, sendVars,
                   attempted, rfVars, utilVars, sessionVars>>

\* ------------------------------------- SimpleYouTubeDownloader.download_track
SearchRaw == {"found", "failed", "timeout", "error"}
FetchRaw == {"written", "nofile", "nonzero", "timeout", "error"}

\* fault variant of _search_youtube: asyncio.TimeoutError is not caught
SearchYoutubeLeak(raw, q) ==
    IF raw = "found" THEN q ELSE IF raw = "timeout" THEN -1 ELSE 0

\* _search_youtube(query q): the locator (q itself), 0 for None, -1 for an exception
\* leaving the function
SearchYoutube(raw, q) ==
    IF raw = "found" THEN q      \* returncode == 0 and stdout
    ELSE 0                       \* search failed, asyncio.TimeoutError, Exception

\* fault variant of search_and_download: the loop has no break
AfterSearchGreedy(q, res) ==
    IF res = -1 THEN "none"
    ELSE IF q < NumQueries THEN "search"
    ELSE IF res # 0 THEN "fetch"
    ELSE IF q = NumQueries THEN "search"
    ELSE "none"

\* fault variant of search_and_download: no final attempt with the simple query
AfterSearchShort(q, res) ==
    IF res = -1 THEN "none"
    ELSE IF res # 0 THEN "fetch"
    ELSE IF q < NumQueries THEN "search"
    ELSE "none"

\* search_and_download after the search of query q returned res:
\* "fetch" (_download_audio), "search" (the next query) or "none" (return None)
AfterSearch(q, res) ==
    IF res = -1 THEN "none"                \* except Exception: return None
    ELSE IF res # 0 THEN "fetch"           \* break / simple query found
    ELSE IF q <= NumQueries THEN "search"  \* next template, then the simple query
    ELSE "none"                            \* "No exact match found"

\* _download_audio: the path returned (NoFile for None), fs the directory afterwards
DownloadAudio(raw, path, fs) ==
    IF raw \in {"written", "nofile"} /\ path \in DOMAIN fs   \* returncode == 0
    THEN path
    ELSE NoFile

\* download_track: audio_file and os.path.exists(audio_file)
TrackResult(file, fs) == IF file # NoFile /\ file \in DOMAIN fs THEN file ELSE NoFile

InCollection == metadata.type \in {"album", "playlist"}
CurrentTrack == IF InCollection THEN tracks[i] ELSE metadata
FailuresSoFar == (i - 1) - successful_downloads
MayFail == InCollection => FailuresSoFar < MaxFailures

\* fault variant of the handler's check: the result of download_track is not tested
GotFileAlways(file, fs) == TRUE

\* the handler's check of what download_track returned:
\* audio_file and os.path.exists(audio_file)
GotFile(file, fs) == file # NoFile /\ file \in DOMAIN fs

\* the loop of download_album / download_playlist moves to the next track
EndTrack ==
    /\ i' = i + 1
    /\ pc' = IF i + 1 <= Len(tracks) THEN "col_progress" ELSE "col_final"
    /\ UNCHANGED <<tracks, total_tracks>>

\* download_track hands `file` to the handler that awaited it; fs is the directory
Return(file, fs) ==
    /\ wf_state' = "returned"
    /\ audio_file' = file
    /\ (file = NoFile) => MayFail
    /\ IF InCollection
       THEN IF GotFile(file, fs)
            THEN pc' = "col_send" /\ UNCHANGED loopVars
            ELSE EndTrack /\ UNCHANGED successful_downloads
       ELSE /\ pc' = IF GotFile(file, fs) THEN "st_uploading" ELSE "st_failed_notice"
            /\ UNCHANGED loopVars

\* download_track is called for track t
StartWaterfall(t) ==
    /\ attempted' = Append(attempted, t.id)
    /\ wf_state' = "running"
    /\ wf_q' = 1
    /\ wf_url' = 0
    /\ wf_searches' = <<>>
    /\ wf_last' = "none"
    /\ wf_fetched' = 0
    /\ wf_fetch_raw' = "none"
    /\ wf_first' = 0
    /\ wf_hint' = 0
    /\ pc' = "wf_search"

\* one _search_youtube call of search_and_download and what follows it up to the next await
WfSearch ==
    /\ pc = "wf_search"
    /\ \E raw \in SearchRaw :
         LET res == SearchYoutube(raw, wf_q)
             nxt == AfterSearch(wf_q, res)
         IN /\ wf_searches' = Append(wf_searches, wf_q)
            /\ wf_last' = raw
            /\ UNCHANGED wf_hint
            /\ wf_url' = IF res > 0 THEN res ELSE 0     \* video_url = await ...
            /\ wf_first' = IF wf_first = 0 /\ res > 0 THEN res ELSE wf_first
            /\ CASE nxt = "search" ->
                      /\ wf_q' = wf_q + 1
                      /\ UNCHANGED <<pc, wf_state, audio_file, loopVars>>
                 [] nxt = "fetch" ->
                      /\ pc' = "wf_fetch"
                      /\ UNCHANGED <<wf_q, wf_state, audio_file, loopVars>>
                 [] OTHER ->
                      /\ Return(NoFile, files)
                      /\ UNCHANGED wf_q
    /\ UNCHANGED <<unit, event, metadata, files, wf_fetched, wf_fetch_raw, last_msg,
                   notices, shown, sendVars, attempted, raised, escaped, rfVars, utilVars, sessionVars>>

\* the _download_audio call of search_and_download, then download_track returns
WfFetch ==
    /\ pc = "wf_fetch"
    /\ \E raw \in FetchRaw, s \in FetchedSizes :
         LET path == PathOf(CurrentTrack.name)
             fs == IF raw = "written" THEN WriteFile(files, path, s) ELSE files
             file == TrackResult(DownloadAudio(raw, path, fs), fs)
         IN /\ files' = fs
            /\ wf_fetched' = wf_url
            /\ wf_fetch_raw' = raw
            /\ wf_hint' = AudioQuality(quality)
            /\ Return(file, fs)
    /\ UNCHANGED <<unit, event, metadata, wf_q, wf_url, wf_searches, wf_last, wf_first,
                   last_msg, notices, shown, sendVars, attempted, raised, escaped, rfVars, utilVars, sessionVars>>

\* ------------------------------------------------------ download_single_track
\* fault variant: the duration is rounded up instead of floored
DurationSecondsRounded(ms) == (ms + MsPerSecond - 1) \div MsPerSecond

\* duration=metadata.get('duration_ms', 0) // 1000
DurationSeconds(ms) == ms \div MsPerSecond

\* the title, performer and duration passed to context.bot.send_audio
SendArgs(t) ==
    [title |-> t.name, performer |-> t.artists,
     duration |-> IF InCollection THEN -1 ELSE DurationSeconds(t.duration_ms)]

\* "Please wait, your music is being processed...", then download_track is awaited
StProcessing ==
    /\ pc = "st_processing"
    /\ \/ /\ Status("processing")
          /\ StartWaterfall(metadata)
          /\ UNCHANGED raised
       \/ /\ Rejected
          /\ pc' = "das_except"
          /\ UNCHANGED <<wfVars, attempted>>
    /\ UNCHANGED <<unit, event, metadata, files, loopVars, audio_file, sendVars, escaped, rfVars, utilVars, sessionVars>>

\* "Uploading your song..." (the artwork request that follows changes no state)
StUploading ==
    /\ pc = "st_uploading"
    /\ \/ Status("uploading") /\ pc' = "st_send" /\ UNCHANGED raised
       \/ Rejected /\ pc' = "st_except"
    /\ UNCHANGED <<unit, event, metadata, files, loopVars, audio_file, wfVars, sendVars,
                   attempted, escaped, rfVars, utilVars, sessionVars>>

\* context.bot.send_audio(...)
StSend ==
    /\ pc = "st_send"
    /\ send_count' = send_count + 1
    /\ last_send' = SendArgs(metadata)
    /\ \/ /\ send_done' = send_done + 1
          /\ pc' = "st_complete"
          /\ UNCHANGED raised
       \/ /\ raised' = TRUE
          /\ pc' = "st_except"
          /\ UNCHANGED send_done
    /\ UNCHANGED <<unit, event, metadata, files, loopVars, audio_file, wfVars, last_msg,
                   notices, shown, attempted, escaped, rfVars, utilVars, sessionVars>>

\* "Download Complete!", then os.remove(audio_file)
StComplete ==
    /\ pc = "st_complete"
    /\ \/ /\ Deliver("complete")
          /\ files' = RemoveFile(files, audio_file)
          /\ pc' = "done"
          /\ UNCHANGED raised
       \/ /\ Rejected
          /\ pc' = "st_except"
          /\ UNCHANGED files
    /\ UNCHANGED <<unit, event, metadata, loopVars, audio_file, wfVars, sendVars, attempted,
                   escaped, rfVars, utilVars, sessionVars>>

\* "Download Failed ... Could not find or download this track from available sources."
StFailedNotice ==
    /\ pc = "st_failed_notice"
    /\ \/ Deliver("download_failed") /\ pc' = "done" /\ UNCHANGED raised
       \/ Rejected /\ pc' = "st_except"
    /\ UNCHANGED <<unit, event, metadata, files, loopVars, audio_file, wfVars, sendVars,
                   attempted, escaped, rfVars, utilVars, sessionVars>>

\* except Exception: "Download error: ..."
StExcept ==
    /\ pc = "st_except"
    /\ \/ Deliver("download_error") /\ pc' = "done" /\ UNCHANGED raised
       \/ Rejected /\ pc' = "das_except"
    /\ UNCHANGED <<unit, event, metadata, files, loopVars, audio_file, wfVars, sendVars,
                   attempted, escaped, rfVars, utilVars, sessionVars>>

\* ------------------------------------------- download_album, download_playlist
\* tracks = tracks[:50]
Truncated(ts) == SubSeq(ts, 1, Cap)

\* fault variant of download_playlist: the list is cut without the notice
AfterCountNoNotice(type, total) ==
    IF total = 0 THEN "col_empty" ELSE "col_progress"

\* the branch after tracks = metadata.get('tracks', []); total_tracks = len(tracks)
AfterCount(type, total) ==
    IF total = 0 THEN "col_empty"
    ELSE IF type = "playlist" /\ total > Cap THEN "pl_truncate"
    ELSE "col_progress"

\* "Processing album..." / "Processing playlist...", then the tracks are counted
ColProcessing ==
    /\ pc = "col_processing"
    /\ \/ /\ Status("processing")
          /\ tracks' = metadata.tracks
          /\ total_tracks' = Len(metadata.tracks)
          /\ pc' = AfterCount(metadata.type, Len(metadata.tracks))
          /\ i' = IF pc' = "col_progress" THEN 1 ELSE 0
          /\ UNCHANGED <<successful_downloads, raised>>
       \/ /\ Rejected
          /\ pc' = "das_except"
          /\ UNCHANGED loopVars
    /\ UNCHANGED <<unit, event, metadata, files, audio_file, wfVars, sendVars, attempted,
                   escaped, rfVars, utilVars, sessionVars>>

\* "No tracks found in this album." / "... playlist."
ColEmpty ==
    /\ pc = "col_empty"
    /\ \/ Deliver("no_tracks") /\ pc' = "done" /\ UNCHANGED raised
       \/ Rejected /\ pc' = "col_except"
    /\ UNCHANGED <<unit, event, metadata, files, loopVars, audio_file, wfVars, sendVars,
                   attempted, escaped, rfVars, utilVars, sessionVars>>

\* download_playlist: "Large Playlist Detected", then the list is cut to 50
PlTruncate ==
    /\ pc = "pl_truncate"
    /\ \/ /\ Status("truncation")
          /\ tracks' = Truncated(tracks)
          /\ total_tracks' = Cap
          /\ i' = 1
          /\ pc' = "col_progress"
          /\ UNCHANGED <<successful_downloads, raised>>
       \/ /\ Rejected
          /\ pc' = "col_except"
          /\ UNCHANGED loopVars
    /\ UNCHANGED <<unit, event, metadata, files, audio_file, wfVars, sendVars, attempted,
                   escaped, rfVars, utilVars, sessionVars>>

\* the progress text of track i, then download_track(track, quality) is awaited
\* (the frame of the previous download_track call is gone by now)
ColProgress ==
    /\ pc = "col_progress"
    /\ \/ /\ Status("progress")
          /\ StartWaterfall(tracks[i])
          /\ UNCHANGED raised
       \/ /\ Rejected
          /\ pc' = "col_except"
          /\ ResetWaterfall
          /\ UNCHANGED attempted
    /\ UNCHANGED <<unit, event, metadata, files, loopVars, audio_file, sendVars, escaped, rfVars, utilVars, sessionVars>>

\* send_audio of track i; on success the tally is raised and the file removed,
\* on an exception the inner except logs and continues
ColSend ==
    /\ pc = "col_send"
    /\ send_count' = send_count + 1
    /\ last_send' = SendArgs(tracks[i])
    /\ \/ /\ send_done' = send_done + 1
          /\ successful_downloads' = successful_downloads + 1
          /\ files' = RemoveFile(files, audio_file)
          /\ UNCHANGED raised
       \/ /\ MayFail
          /\ raised' = TRUE
          /\ UNCHANGED <<send_done, successful_downloads, files>>
    /\ EndTrack
    /\ ResetWaterfall
    /\ UNCHANGED <<unit, event, metadata, audio_file, last_msg, notices, shown, attempted,
                   escaped, rfVars, utilVars, sessionVars>>

\* "Album Download Complete!" / "Playlist Download Complete!" with the tally
ColFinal ==
    /\ pc = "col_final"
    /\ \/ Deliver("collection_complete") /\ pc' = "done" /\ UNCHANGED raised
       \/ Rejected /\ pc' = "col_except"
    /\ ResetWaterfall
    /\ UNCHANGED <<unit, event, metadata, files, loopVars, audio_file, sendVars,
                   attempted, escaped, rfVars, utilVars, sessionVars>>

\* outer except Exception: "Album download error: ..." / "Playlist download error: ..."
ColExcept ==
    /\ pc = "col_except"
    /\ \/ Deliver("collection_error") /\ pc' = "done" /\ UNCHANGED raised
       \/ Rejected /\ pc' = "das_except"
    /\ UNCHANGED <<unit, event, metadata, files, loopVars, audio_file, wfVars, sendVars,
                   attempted, escaped, rfVars, utilVars, sessionVars>>

\* ------------------------------------- RenderFriendlyDownloader.download_track
RfPath == PathOf("a")
RfSources == <<"internet_archive", "free_music_archive", "jamendo", "demo">>

\* _download_audio_file: file_size > 1000
ValidSize(s) == s > MinSize

\* _download_from_free_music_archive and _download_from_jamendo return None
FreeMusicArchive == NoFile
Jamendo == NoFile

\* download_track after the archive returned None: the two stubs, then _create_demo_audio;
\* none of them awaits, so they run in the step that ends the archive attempt.
\* inv: the sources invoked so far, fs: the directory
FallBack(inv, fs) ==
    IF FreeMusicArchive # NoFile
    THEN /\ rf_invoked' = inv \o <<"free_music_archive">>
         /\ rf_result' = FreeMusicArchive
         /\ files' = fs
    ELSE IF Jamendo # NoFile
    THEN /\ rf_invoked' = inv \o <<"free_music_archive", "jamendo">>
         /\ rf_result' = Jamendo
         /\ files' = fs
    ELSE /\ rf_invoked' = inv \o <<"free_music_archive", "jamendo", "demo">>
         /\ \/ /\ files' = WriteFile(fs, RfPath, DemoSize)   \* demo file written
               /\ rf_result' = RfPath
            \/ /\ files' = fs                                 \* except Exception: None
               /\ rf_result' = NoFile

\* download_track(track_metadata) is called
RfStart ==
    /\ unit = "render"
    /\ rf_pc \in {"idle", "done"}
    /\ rf_pc' = "ia_search"
    /\ rf_invoked' = <<>>
    /\ rf_docs' = 0
    /\ rf_tried' = 0
    /\ rf_result' = NoFile
    /\ UNCHANGED <<unit, files, botVars, wfVars, utilVars>>

\* _download_from_internet_archive: the search request; docs[:3] are kept
RfArchiveSearch ==
    /\ rf_pc = "ia_search"
    /\ \E d \in 0 .. MaxDocs :     \* 0: status != 200, no identifier, or an exception
         LET n == IF d > DocsTried THEN DocsTried ELSE d
             inv == Append(rf_invoked, "internet_archive")
         IN /\ rf_docs' = n
            /\ rf_tried' = 0
            /\ IF n > 0
               THEN /\ rf_pc' = "ia_fetch"
                    /\ rf_invoked' = inv
                    /\ UNCHANGED <<files, rf_result>>
               ELSE /\ rf_pc' = "done"
                    /\ FallBack(inv, files)
    /\ UNCHANGED <<unit, botVars, wfVars, utilVars>>

RfFetchRaw == {"ok", "bad_status", "error", "error_partial"}

\* _download_audio_file: the directory after the call
AudioFileDir(raw, s, fs) ==
    IF raw = "ok" THEN (IF ValidSize(s) THEN WriteFile(fs, RfPath, s)
                        ELSE RemoveFile(WriteFile(fs, RfPath, s), RfPath))
    ELSE IF raw = "error_partial" THEN WriteFile(fs, RfPath, s)  \* raised while writing
    ELSE fs

\* _download_audio_file: the path returned (NoFile for None)
AudioFileResult(raw, s) == IF raw = "ok" /\ ValidSize(s) THEN RfPath ELSE NoFile

\* one _download_audio_file call of the archive loop; the first file ends download_track
RfArchiveFetch ==
    /\ rf_pc = "ia_fetch"
    /\ \E raw \in RfFetchRaw, s \in Sizes :
         LET fs == AudioFileDir(raw, s, files)
             file == AudioFileResult(raw, s)
         IN /\ rf_tried' = rf_tried + 1
            /\ UNCHANGED rf_docs
            /\ IF file # NoFile
               THEN /\ rf_result' = file
                    /\ files' = fs
                    /\ rf_pc' = "done"
                    /\ UNCHANGED rf_invoked
               ELSE IF rf_tried + 1 < rf_docs
               THEN /\ files' = fs
                    /\ UNCHANGED <<rf_pc, rf_invoked, rf_result>>
               ELSE /\ rf_pc' = "done"
                    /\ FallBack(rf_invoked, fs)
    /\ UNCHANGED <<unit, botVars, wfVars, utilVars>>

\* -------------------------------------------------------- the link classifier
\* extract_spotify_id(url) and is_spotify_link(url) are applied to the link
Classify ==
    /\ unit = "classifier"
    /\ ~cls.done
    /\ cls' = [cls EXCEPT !.done = TRUE,
                          !.content = ExtractSpotifyId(cls.url),
                          !.is_link = IsSpotifyLink(cls.url)]
    /\ UNCHANGED <<unit, files, botVars, wfVars, rfVars, art, fname, popular_tracks, dsample, tier, plres, mix, clog, own, loop, agr, ses, disp>>

\* _get_best_image(images) is applied to the images array
BestImage ==
    /\ unit = "artwork"
    /\ ~art.done
    /\ art' = [art EXCEPT !.done = TRUE, !.url = GetBestImage(art.images)]
    /\ UNCHANGED <<unit, files, botVars, wfVars, rfVars, cls, fname, popular_tracks, dsample, tier, plres, mix, clog, own, loop, agr, ses, disp>>

\* clean_filename is applied to the input and then to its own result
Sanitize ==
    /\ unit = "filename"
    /\ ~fname.done
    /\ fname' = [fname EXCEPT !.done = TRUE,
                              !.once = CleanFilename(fname.input),
                              !.twice = CleanFilename(CleanFilename(fname.input))]
    /\ UNCHANGED <<unit, files, botVars, wfVars, rfVars, cls, art, popular_tracks, dsample, tier, plres, mix, clog, own, loop, agr, ses, disp>>

\* add_custom_track(name, artist, spotify_url): the entry is appended
AddCustomTrack ==
    /\ unit = "demo"
    /\ ~dsample.done
    /\ Len(popular_tracks) < SeedLen + MaxCustom
    /\ popular_tracks' = Append(popular_tracks, Len(popular_tracks) + 1)
    /\ UNCHANGED <<unit, files, botVars, wfVars, rfVars, cls, art, fname, dsample, tier, plres, mix, clog, own, loop, agr, ses, disp>>

\* get_random_tracks(count)
RandomTracks ==
    /\ unit = "demo"
    /\ ~dsample.done
    /\ \E list \in GetRandomTracks(popular_tracks, dsample.count) :
          dsample' = [dsample EXCEPT !.done = TRUE, !.before = popular_tracks,
                                     !.result = list]
    /\ UNCHANGED <<unit, files, botVars, wfVars, rfVars, cls, art, fname, popular_tracks, tier, plres, mix, clog, own, loop, agr, ses, disp>>

\* a quality button is pressed: process_quality_selection splits the callback data
\* and the tier is passed on unchanged to _download_audio, which builds the command
SelectTier ==
    /\ unit = "tier"
    /\ ~tier.done
    /\ tier' = [tier EXCEPT !.done = TRUE,
                            !.quality = Field(tier.data),
                            !.hint = AudioQuality(Field(tier.data)),
                            !.format = AudioFormat]
    /\ UNCHANGED <<unit, files, botVars, wfVars, rfVars, cls, art, fname, popular_tracks, dsample, plres, mix, clog, own, loop, agr, ses, disp>>

\* get_playlist_metadata is applied to the playlist object
ResolveItems ==
    /\ unit = "playlist"
    /\ ~plres.done
    /\ plres' = [plres EXCEPT !.done = TRUE, !.result = ResolvePlaylist(plres.items)]
    /\ UNCHANGED <<unit, files, botVars, wfVars, rfVars, cls, art, fname, popular_tracks, dsample, tier, mix, clog, own, loop, agr, ses, disp>>

\* extract_spotify_id(url) is applied to the text with two links
ClassifyMix ==
    /\ unit = "precedence"
    /\ ~mix.done
    /\ mix' = [mix EXCEPT !.done = TRUE, !.content = ExtractSpotifyId(mix.url)]
    /\ UNCHANGED <<unit, files, botVars, wfVars, rfVars, cls, art, fname, popular_tracks, dsample, tier, plres, clog, own, loop, agr, ses, disp>>

\* add_custom_track(name, artist, spotify_url) in a sequence of calls
CatalogAppend ==
    /\ unit = "catalog"
    /\ clog.calls < MaxCalls
    /\ Len(clog.appended) < MaxAppend
    /\ \E e \in CustomEntries :
         /\ popular_tracks' = Append(popular_tracks, e)
         /\ clog' = [clog EXCEPT !.appended = Append(@, e), !.calls = @ + 1]
    /\ UNCHANGED <<unit, files, botVars, wfVars, rfVars, cls, art, fname, dsample, tier, plres, mix, own, loop, agr, ses, disp>>

\* get_random_tracks(count) in a sequence of calls
CatalogSample ==
    /\ unit = "catalog"
    /\ clog.calls < MaxCalls
    /\ \E count \in CatalogCounts : \E list \in GetRandomTracks(popular_tracks, count) :
         clog' = [clog EXCEPT !.returned = Len(list), !.calls = @ + 1]
    /\ UNCHANGED <<unit, files, botVars, wfVars, rfVars, cls, art, fname, popular_tracks, dsample, tier, plres, mix, own, loop, agr, ses, disp>>

\* search_demo_tracks(query) in a sequence of calls
CatalogSearch ==
    /\ unit = "catalog"
    /\ clog.calls < MaxCalls
    /\ \E q \in Queries :
         clog' = [clog EXCEPT !.returned = Len(SearchDemoTracks(popular_tracks, q)),
                              !.calls = @ + 1]
    /\ UNCHANGED <<unit, files, botVars, wfVars, rfVars, cls, art, fname, popular_tracks, dsample, tier, plres, mix, own, loop, agr, ses, disp>>

\* get_track_by_index(index) in a sequence of calls
CatalogByIndex ==
    /\ unit = "catalog"
    /\ clog.calls < MaxCalls
    /\ \E index \in -1 .. (SeedLen + MaxAppend) :
         clog' = [clog EXCEPT !.index = index, !.len = Len(popular_tracks),
                              !.got = GetTrackByIndex(popular_tracks, index),
                              !.asked = TRUE, !.calls = @ + 1]
    /\ UNCHANGED <<unit, files, botVars, wfVars, rfVars, cls, art, fname, popular_tracks, dsample, tier, plres, mix, own, loop, agr, ses, disp>>

\* a quality is chosen in conversation c: download_single_track awaits
\* download_track, which starts the yt-dlp process for the best match
SharedStart(c) ==
    /\ unit = "shared"
    /\ own.conv[c].pc = "idle"
    /\ \E name \in Requested :
         own' = [own EXCEPT !.conv[c] = [pc |-> "fetch", name |-> name, path |-> NoPath]]
    /\ UNCHANGED <<unit, files, botVars, wfVars, rfVars, cls, art, fname, popular_tracks, dsample, tier, plres, mix, clog, loop, agr, ses, disp>>

\* the yt-dlp process of conversation c ends while _download_audio awaits it: it
\* wrote its output file, left an existing file as it was, wrote nothing, or failed
SharedProcess(c) ==
    /\ unit = "shared"
    /\ own.conv[c].pc = "fetch"
    /\ LET file == ExpectedFile(own.conv[c].name)
       IN \/ own' = [own EXCEPT !.dir = WriteFile(@, file, c), !.conv[c].pc = "exited"]
          \/ own' = [own EXCEPT !.conv[c].pc = "exited"]
          \/ own' = [own EXCEPT !.conv[c].pc = "failed"]
    /\ UNCHANGED <<unit, files, botVars, wfVars, rfVars, cls, art, fname, popular_tracks, dsample, tier, plres, mix, clog, loop, agr, ses, disp>>

\* _download_audio resumes after returncode == 0 and looks for the file; the
\* handler tests audio_file and os.path.exists(audio_file), then awaits
\* "Uploading your song..."
SharedResume(c) ==
    /\ unit = "shared"
    /\ own.conv[c].pc = "exited"
    /\ \E path \in FoundFiles(own.conv[c].name, own.dir) :
         own' = [own EXCEPT !.conv[c].path = path,
                            !.conv[c].pc = IF path = NoPath THEN "failed" ELSE "holding"]
    /\ UNCHANGED <<unit, files, botVars, wfVars, rfVars, cls, art, fname, popular_tracks, dsample, tier, plres, mix, clog, loop, agr, ses, disp>>

\* with open(audio_file, 'rb'): await context.bot.send_audio(...); a missing file
\* raises into "Download error"
SharedOpen(c) ==
    /\ unit = "shared"
    /\ own.conv[c].pc = "holding"
    /\ own' = [own EXCEPT !.conv[c].pc =
                   IF own.conv[c].path \in DOMAIN own.dir THEN "sending" ELSE "error"]
    /\ UNCHANGED <<unit, files, botVars, wfVars, rfVars, cls, art, fname, popular_tracks, dsample, tier, plres, mix, clog, loop, agr, ses, disp>>

\* send_audio returns; "Download Complete!" is awaited
SharedSent(c) ==
    /\ unit = "shared"
    /\ own.conv[c].pc = "sending"
    /\ own' = [own EXCEPT !.conv[c].pc = "sent"]
    /\ UNCHANGED <<unit, files, botVars, wfVars, rfVars, cls, art, fname, popular_tracks, dsample, tier, plres, mix, clog, loop, agr, ses, disp>>

\* os.remove(audio_file) inside try / except: pass
SharedRemove(c) ==
    /\ unit = "shared"
    /\ own.conv[c].pc = "sent"
    /\ own' = [own EXCEPT !.dir = RemoveFile(@, own.conv[c].path), !.conv[c].pc = "done"]
    /\ UNCHANGED <<unit, files, botVars, wfVars, rfVars, cls, art, fname, popular_tracks, dsample, tier, plres, mix, clog, loop, agr, ses, disp>>

SharedNext ==
    \E c \in Conversations :
        \/ SharedStart(c)
        \/ SharedProcess(c)
        \/ SharedResume(c)
        \/ SharedOpen(c)
        \/ SharedSent(c)
        \/ SharedRemove(c)

\* process_spotify_link for a link whose metadata is found: the metadata is stored
\* and a new message shows its summary with the quality buttons
SesLink ==
    /\ unit = "session"
    /\ Len(ses.msgs) < MaxMessages
    /\ \E n \in SentLinks :
         ses' = [ses EXCEPT !.metadata = Content("link", n),
                            !.msgs = Append(@, Message("menu", Content("link", n), <<>>)),
                            !.cancelled = @ \ {Content("link", n)}]
    /\ UNCHANGED <<unit, files, botVars, wfVars, rfVars, cls, art, fname, popular_tracks, dsample, tier, plres, mix, clog, own, loop, agr, disp>>

\* handle_message for a text that is no link: a new message with "Try Demo Songs"
SesPrompt ==
    /\ unit = "session"
    /\ Len(ses.msgs) < MaxMessages
    /\ ses' = [ses EXCEPT !.msgs = Append(@, Message("prompt", NoStored, <<>>))]
    /\ UNCHANGED <<unit, files, botVars, wfVars, rfVars, cls, art, fname, popular_tracks, dsample, tier, plres, mix, clog, own, loop, agr, disp>>

\* show_demo_songs from a message with a demo_songs button: the sample is stored
\* and the message is edited to show it
SesShowDemo ==
    /\ unit = "session"
    /\ \E m \in 1 .. Len(ses.msgs) : \E list \in Samples :
         /\ ses.msgs[m].kind \in {"prompt", "list"}
         /\ ses' = [ses EXCEPT !.demo_tracks = list,
                               !.msgs[m] = Message("list", NoStored, list)]
    /\ UNCHANGED <<unit, files, botVars, wfVars, rfVars, cls, art, fname, popular_tracks, dsample, tier, plres, mix, clog, own, loop, agr, disp>>

\* process_demo_song for button i of a demo list message: the entry i of the stored
\* list is processed, and its metadata is stored when the catalog finds it
SesDemoPick ==
    /\ unit = "session"
    /\ \E m \in 1 .. Len(ses.msgs) :
         /\ ses.msgs[m].kind = "list"
         /\ \E index \in 0 .. (Len(ses.msgs[m].list) - 1) :
              /\ index < Len(ses.demo_tracks)
              /\ LET selected_track == Content("demo", ses.demo_tracks[index + 1])
                     shown_track == Content("demo", ses.msgs[m].list[index + 1])
                 IN \E found \in BOOLEAN :
                      ses' = [ses EXCEPT
                                !.metadata = IF found THEN selected_track ELSE @,
                                !.msgs[m] = Message("used", NoStored, <<>>),
                                !.used = [kind |-> "demo", shown |-> shown_track,
                                          got |-> selected_track, started |-> found]]
    /\ UNCHANGED <<unit, files, botVars, wfVars, rfVars, cls, art, fname, popular_tracks, dsample, tier, plres, mix, clog, own, loop, agr, disp>>

\* process_quality_selection for a quality button of a menu message:
\* download_and_send takes context.user_data.get('metadata')
SesQuality ==
    /\ unit = "session"
    /\ \E m \in 1 .. Len(ses.msgs) :
         /\ ses.msgs[m].kind = "menu"
         /\ ses' = [ses EXCEPT
                      !.msgs[m] = Message("used", NoStored, <<>>),
                      !.used = [kind |-> "quality", shown |-> ses.msgs[m].menu,
                                got |-> ses.metadata, started |-> ses.metadata # NoStored]]
    /\ UNCHANGED <<unit, files, botVars, wfVars, rfVars, cls, art, fname, popular_tracks, dsample, tier, plres, mix, clog, own, loop, agr, disp>>

\* handle_callback with cancel on a menu message: "Operation cancelled."
SesCancel ==
    /\ unit = "session"
    /\ \E m \in 1 .. Len(ses.msgs) :
         /\ ses.msgs[m].kind = "menu"
         /\ ses' = [ses EXCEPT
                      !.msgs[m] = Message("used", NoStored, <<>>),
                      !.used = [kind |-> "cancel", shown |-> ses.msgs[m].menu,
                                got |-> NoStored, started |-> FALSE],
                      !.cancelled = @ \cup {ses.msgs[m].menu}]
    /\ UNCHANGED <<unit, files, botVars, wfVars, rfVars, cls, art, fname, popular_tracks, dsample, tier, plres, mix, clog, own, loop, agr, disp>>

\* handle_callback takes the pressed button's callback data
HandleCallback ==
    /\ unit = "dispatch"
    /\ ~disp.done
    /\ disp' = [disp EXCEPT !.done = TRUE, !.route = Route(disp.data)]
    /\ UNCHANGED <<unit, files, botVars, wfVars, rfVars, cls, art, fname, popular_tracks, dsample, tier, plres, mix, clog, own, loop, agr, ses>>

SessionNext ==
    \/ SesLink
    \/ SesPrompt
    \/ SesShowDemo
    \/ SesDemoPick
    \/ SesQuality
    \/ SesCancel

\* is_spotify_link and extract_spotify_id are applied to the same text
Recognize ==
    /\ unit = "agree"
    /\ ~agr.done
    /\ agr' = [agr EXCEPT !.done = TRUE,
                          !.is_link = IsSpotifyLink(agr.text),
                          !.content = ExtractSpotifyId(agr.text)]
    /\ UNCHANGED <<unit, files, botVars, wfVars, rfVars, cls, art, fname, popular_tracks, dsample, tier, plres, mix, clog, own, loop, ses, disp>>

\* the loop can run a handler or resume a coroutine
LoopFree == loop.blocked = NoOne

\* an inbound event of conversation c can be accepted and handled
Accepts(c) == LoopFree /\ loop.pc[c] \in {"idle", "menu"}

\* a link arrives in conversation c: handle_message, process_spotify_link awaits
\* the "Analyzing" reply
LoopLink(c) ==
    /\ unit = "loop"
    /\ Accepts(c)
    /\ loop.pc[c] = "idle"
    /\ loop' = [loop EXCEPT !.pc[c] = "analyzing"]
    /\ UNCHANGED <<unit, files, botVars, wfVars, rfVars, cls, art, fname, popular_tracks, dsample, tier, plres, mix, clog, own, agr, ses, disp>>

\* get_metadata -> get_track_metadata: self.spotify.track(track_id) is called, not
\* awaited: the HTTP request runs on the loop's thread
LoopResolve(c) ==
    /\ unit = "loop"
    /\ loop.blocked = NoOne
    /\ loop.pc[c] = "analyzing"
    /\ loop' = [loop EXCEPT !.pc[c] = "resolving", !.blocked = c]
    /\ UNCHANGED <<unit, files, botVars, wfVars, rfVars, cls, art, fname, popular_tracks, dsample, tier, plres, mix, clog, own, agr, ses, disp>>

\* the catalog answers; the quality menu is awaited
LoopResolved(c) ==
    /\ unit = "loop"
    /\ loop.blocked = c
    /\ loop.pc[c] = "resolving"
    /\ loop' = [loop EXCEPT !.pc[c] = "menu", !.blocked = NoOne]
    /\ UNCHANGED <<unit, files, botVars, wfVars, rfVars, cls, art, fname, popular_tracks, dsample, tier, plres, mix, clog, own, agr, ses, disp>>

\* a quality is chosen in conversation c: download_single_track awaits
\* download_track, _search_youtube awaits its yt-dlp process
LoopQuality(c) ==
    /\ unit = "loop"
    /\ Accepts(c)
    /\ loop.pc[c] = "menu"
    /\ loop' = [loop EXCEPT !.pc[c] = "searching"]
    /\ UNCHANGED <<unit, files, botVars, wfVars, rfVars, cls, art, fname, popular_tracks, dsample, tier, plres, mix, clog, own, agr, ses, disp>>

\* the search process ends; _download_audio awaits its yt-dlp process
LoopSearched(c) ==
    /\ unit = "loop"
    /\ loop.blocked = NoOne
    /\ loop.pc[c] = "searching"
    /\ loop' = [loop EXCEPT !.pc[c] = "fetching"]
    /\ UNCHANGED <<unit, files, botVars, wfVars, rfVars, cls, art, fname, popular_tracks, dsample, tier, plres, mix, clog, own, agr, ses, disp>>

\* the fetch process ends; "Uploading your song..." is awaited
LoopFetched(c) ==
    /\ unit = "loop"
    /\ loop.blocked = NoOne
    /\ loop.pc[c] = "fetching"
    /\ loop' = [loop EXCEPT !.pc[c] = "uploading"]
    /\ UNCHANGED <<unit, files, botVars, wfVars, rfVars, cls, art, fname, popular_tracks, dsample, tier, plres, mix, clog, own, agr, ses, disp>>

\* requests.get(metadata['album_art_url'], timeout=5) is called, not awaited
LoopArtwork(c) ==
    /\ unit = "loop"
    /\ loop.blocked = NoOne
    /\ loop.pc[c] = "uploading"
    /\ loop' = [loop EXCEPT !.pc[c] = "artwork", !.blocked = c]
    /\ UNCHANGED <<unit, files, botVars, wfVars, rfVars, cls, art, fname, popular_tracks, dsample, tier, plres, mix, clog, own, agr, ses, disp>>

\* the artwork request returns or times out; send_audio is awaited
LoopArtworkDone(c) ==
    /\ unit = "loop"
    /\ loop.blocked = c
    /\ loop.pc[c] = "artwork"
    /\ loop' = [loop EXCEPT !.pc[c] = "sending", !.blocked = NoOne]
    /\ UNCHANGED <<unit, files, botVars, wfVars, rfVars, cls, art, fname, popular_tracks, dsample, tier, plres, mix, clog, own, agr, ses, disp>>

\* send_audio and "Download Complete!" return; the handler ends
LoopSent(c) ==
    /\ unit = "loop"
    /\ loop.blocked = NoOne
    /\ loop.pc[c] = "sending"
    /\ loop' = [loop EXCEPT !.pc[c] = "idle"]
    /\ UNCHANGED <<unit, files, botVars, wfVars, rfVars, cls, art, fname, popular_tracks, dsample, tier, plres, mix, clog, own, agr, ses, disp>>

LoopNext ==
    \E c \in Conversations :
        \/ LoopLink(c)
        \/ LoopResolve(c)
        \/ LoopResolved(c)
        \/ LoopQuality(c)
        \/ LoopSearched(c)
        \/ LoopFetched(c)
        \/ LoopArtwork(c)
        \/ LoopArtworkDone(c)
        \/ LoopSent(c)

UtilNext ==
    \/ HandleCallback
    \/ SessionNext
    \/ Recognize
    \/ LoopNext
    \/ SharedNext
    \/ CatalogAppend
    \/ CatalogSample
    \/ CatalogSearch
    \/ CatalogByIndex
    \/ ClassifyMix
    \/ ResolveItems
    \/ SelectTier
    \/ Classify
    \/ BestImage
    \/ Sanitize
    \/ AddCustomTrack
    \/ RandomTracks

RenderNext ==
    \/ RfStart
    \/ RfArchiveSearch
    \/ RfArchiveFetch

BotNext ==
    \/ HandleMessage
    \/ PslTry
    \/ PslNotFound
    \/ PslMenu
    \/ PslExcept
    \/ ShowDemoSongs
    \/ ShowHelp
    \/ Cancel
    \/ UnroutedCallback
    \/ ProcessDemoSong
    \/ PsldResolve
    \/ PsldNotFound
    \/ PsldExcept
    \/ PdsExcept
    \/ QualitySelection
    \/ StaleNotice
    \/ DasExcept
    \/ WfSearch
    \/ WfFetch
    \/ StProcessing
    \/ StUploading
    \/ StSend
    \/ StComplete
    \/ StFailedNotice
    \/ StExcept
    \/ ColProcessing
    \/ ColEmpty
    \/ PlTruncate
    \/ ColProgress
    \/ ColSend
    \/ ColFinal
    \/ ColExcept

Next == BotNext \/ RenderNext \/ UtilNext

Spec == Init /\ [][Next]_vars

\* every handler step that can be taken is eventually taken: each awaited external
\* call returns, raises or times out
LiveSpec == Init /\ [][Next]_vars /\ WF_vars(BotNext)

\* ----------------------------------------------------------------- claims
\* the track of the latest download_track call
WfTrack == IF InCollection THEN tracks[attempted[Len(attempted)]] ELSE metadata

FailureNotices ==
    {"no_metadata", "download_failed", "download_error", "das_failed", "no_tracks",
     "collection_error"}

\* the handler of a quality selection has finished
QualityDone == event = "quality" /\ pc = "done"

Delivered == QualityDone /\ notices = <<"complete">> /\ last_msg = "complete"

Failed ==
    /\ QualityDone
    /\ \/ Len(notices) = 1 /\ notices[1] \in FailureNotices /\ last_msg = notices[1]
       \/ escaped /\ notices = <<>>

\* download_track has handed a file to download_single_track
SingleGotFile == metadata.type = "track" /\ wf_state = "returned" /\ audio_file # NoFile

\* download_track has returned None to download_single_track
SingleNoFile == metadata.type = "track" /\ wf_state = "returned" /\ audio_file = NoFile

\* C1: single-track success path.  When a quality selection finds stored track metadata,
\* download_track hands over an existing file and no outbound call raises, send_audio has
\* been called exactly once with title = name, performer = artists and duration =
\* duration_ms integer-divided by 1000, the flow ends in Delivered and the file is deleted
\* when the handler finishes.  send_audio is never called twice for a single track.
C1_SingleTrackSuccess ==
    /\ (metadata.type = "track" /\ event = "quality") => send_count <= 1
    /\ (QualityDone /\ SingleGotFile /\ ~raised) =>
          /\ send_count = 1
          /\ send_done = 1
          /\ last_send.title = metadata.name
          /\ last_send.performer = metadata.artists
          /\ last_send.duration * 1000 <= metadata.duration_ms
          /\ metadata.duration_ms < (last_send.duration + 1) * 1000
          /\ Delivered
          /\ audio_file \notin DOMAIN files

C1_Witness ==
    /\ QualityDone /\ SingleGotFile /\ ~raised
    /\ metadata.duration_ms = 200999
    /\ last_send.duration = 200
    /\ Delivered

\* C2: single-track failure path.  When download_track returns None for the selected
\* track, send_audio is never called, the flow ends in Failed and at most one failure
\* notice reaches the user: exactly one unless Telegram rejected every attempt to post it,
\* and it is the source-exhaustion notice when no outbound call raised.
C2_SingleTrackFailure ==
    /\ (event = "quality" /\ SingleNoFile) => send_count = 0
    /\ (QualityDone /\ SingleNoFile) =>
          /\ Failed
          /\ Len(notices) <= 1
          /\ ~escaped => Len(notices) = 1
          /\ ~raised => notices = <<"download_failed">>

C2_Witness ==
    /\ QualityDone /\ SingleNoFile
    /\ notices = <<"download_failed">>
    /\ Len(wf_searches) = NumQueries + 1

\* the handling of a track by a download_* handler has ended: the single-track handler
\* has finished, or the collection loop stands between two tracks or after the last one
TrackHandled ==
    /\ event = "quality"
    /\ wf_state = "returned"
    /\ \/ metadata.type = "track" /\ pc = "done"
       \/ InCollection /\ pc \in {"col_progress", "col_final", "col_except", "das_except", "done"}

\* C3: unconditional cleanup.  Every file download_track handed to the flow controller
\* and send_audio was called on is deleted by the time that track's handling ends,
\* whether send_audio or the following status edit succeeded or raised.
C3_UnconditionalCleanup ==
    (TrackHandled /\ audio_file # NoFile /\ send_count >= 1) => audio_file \notin DOMAIN files

\* C4: stale state.  A quality selection that finds no stored metadata starts no
\* download_track call and no send_audio, and its only outbound call is the stale-state
\* notice, with which the flow ends in Failed.
C4_StaleState ==
    (event = "quality" /\ metadata.type = "none") =>
        /\ pc \in {"stale_notice", "done"}
        /\ wf_state = "idle"
        /\ attempted = <<>>
        /\ send_count = 0
        /\ pc = "done" => Failed
        /\ (pc = "done" /\ ~raised) => notices = <<"no_metadata">>

C4_Witness ==
    /\ QualityDone
    /\ metadata.type = "none"
    /\ notices = <<"no_metadata">>
    /\ last_msg = "no_metadata"

IsPrefix(a, b) == Len(a) <= Len(b) /\ \A k \in 1 .. Len(a) : a[k] = b[k]

\* C5: first success wins.  The queries of search_and_download are searched one after
\* another in their fixed order; once a search has produced a locator no later query is
\* searched, the fetch is made on that locator and a returned file is the file of that
\* fetch.  The sources of RenderFriendlyDownloader are invoked in their fixed order and
\* a file returned by the archive ends the call before any later source is invoked.
C5_FirstSuccessWins ==
    /\ Len(wf_searches) <= NumQueries + 1
    /\ \A k \in 1 .. Len(wf_searches) : wf_searches[k] = k
    /\ wf_first # 0 => (Len(wf_searches) = wf_first /\ wf_url = wf_first)
    /\ wf_fetched # 0 => wf_fetched = wf_first
    /\ (wf_state = "returned" /\ audio_file # NoFile) =>
          /\ wf_fetched # 0
          /\ wf_fetch_raw \in {"written", "nofile"}
          /\ audio_file = PathOf(WfTrack.name)
    /\ IsPrefix(rf_invoked, RfSources)
    /\ (rf_pc = "done" /\ rf_result # NoFile) =>
          \/ rf_invoked = <<"internet_archive">> /\ files[rf_result] \in Sizes
          \/ rf_invoked = RfSources /\ files[rf_result] = DemoSize

C5_Witness ==
    /\ wf_state = "returned"
    /\ audio_file # NoFile
    /\ wf_first = 2
    /\ wf_searches = <<1, 2>>
    /\ wf_last = "found"

\* download_track of the bot's downloader has returned None
WaterfallFailed == wf_state = "returned" /\ audio_file = NoFile

AllQueriesSearched == Len(wf_searches) = NumQueries + 1 /\ wf_first = 0

RenderFailed == rf_pc = "done" /\ rf_result = NoFile

\* C6 as claimed: download_track returns failure only after every source and every
\* query template of the video-platform source has been attempted and has failed.
C6_FailureOnlyAfterAllQueries ==
    /\ WaterfallFailed => AllQueriesSearched
    /\ RenderFailed => rf_invoked = RfSources

\* C6 as amended: download_track returns failure only after every query template was
\* searched and produced no locator, or after the one fetch, made on the first locator
\* found, failed (the templates after that locator's are then left untried);
\* RenderFriendlyDownloader returns failure only after all four sources were invoked.
C6_FailureOnlyAfterAllSources ==
    /\ WaterfallFailed =>
          \/ AllQueriesSearched /\ wf_fetched = 0
          \/ /\ wf_first # 0
             /\ wf_fetched = wf_first
             /\ wf_fetch_raw \in FetchRaw \ {"written"}
    /\ RenderFailed => rf_invoked = RfSources

C6_Witness ==
    /\ WaterfallFailed
    /\ wf_first = 3
    /\ wf_fetched = 3
    /\ wf_fetch_raw = "timeout"

\* C7: fetch validation.  Every path a downloader returns as a success refers to a file
\* whose size is above the minimum byte-size threshold.
C7_FetchValidation ==
    /\ (wf_state = "returned" /\ audio_file # NoFile /\ audio_file \in DOMAIN files) =>
          files[audio_file] > MinSize
    /\ (rf_pc = "done" /\ rf_result # NoFile) => files[rf_result] > MinSize

\* C8: a timeout is that attempt's failure only.  After a search that timed out on one
\* of the query templates the call is still running and is about to search the next
\* query; a timeout of the last search or of the fetch makes download_track return None,
\* and the handler takes its no-file branch, not an exception path.
C8_TimeoutIsAttemptFailure ==
    /\ (wf_last = "timeout" /\ Len(wf_searches) <= NumQueries) =>
          /\ wf_state = "running"
          /\ pc = "wf_search"
          /\ wf_q = Len(wf_searches) + 1
          /\ wf_url = 0
    /\ (wf_last = "timeout" /\ Len(wf_searches) = NumQueries + 1) =>
          /\ WaterfallFailed
          /\ wf_fetched = 0
    /\ wf_fetch_raw = "timeout" => WaterfallFailed
    /\ (WaterfallFailed /\ ~raised /\ event = "quality") =>
          pc \in {"st_failed_notice", "col_progress", "col_final", "done"}

C8_Witness ==
    /\ wf_searches = <<1, 2, 3>>
    /\ wf_last = "timeout"
    /\ pc = "wf_search"
    /\ wf_q = 4

\* the ids of a sequence of track entries
Ids(ts) == [k \in 1 .. Len(ts) |-> ts[k].id]

\* a collection handler has finished after it started on at least one track
CollectionDone == QualityDone /\ InCollection /\ Len(attempted) >= 1

\* C9: collection download.  The tracks are processed in their original order, a failure
\* on one track never aborts the remaining tracks, and the final report states
\* successful_downloads / total_tracks, where successful_downloads is the number of
\* completed send_audio calls and lies between 0 and the number of attempted tracks.
C9_CollectionContinues ==
    /\ (event = "quality" /\ InCollection) => IsPrefix(attempted, Ids(metadata.tracks))
    /\ CollectionDone =>
          /\ attempted = Ids(tracks)
          /\ successful_downloads = send_done
          /\ 0 <= successful_downloads
          /\ successful_downloads <= Len(attempted)
          /\ total_tracks = Len(attempted)

\* the first n entries of a sequence (all of them when it is shorter)
FirstN(seq, n) == [k \in 1 .. (IF Len(seq) < n THEN Len(seq) ELSE n) |-> seq[k]]

\* C10: collection cap.  No collection download passes more than 50 tracks to
\* download_track, and a collection of more than 50 tracks has exactly its first 50
\* tracks, in original order, passed to it.
C10_CollectionCap ==
    /\ Len(attempted) <= Cap
    /\ (event = "quality" /\ InCollection) =>
          IsPrefix(attempted, FirstN(Ids(metadata.tracks), Cap))

\* position of a kind in the log of texts seen (0: not seen)
SeenAt(kind) == IF \E k \in 1 .. Len(shown) : shown[k] = kind
                THEN CHOOSE k \in 1 .. Len(shown) : shown[k] = kind
                ELSE 0

\* the running handler downloads a stored playlist of more than 50 tracks
LargePlaylist ==
    event = "quality" /\ metadata.type = "playlist" /\ Len(metadata.tracks) > Cap

\* C11: truncation notice first.  In the download of a playlist of more than 50 tracks
\* the truncation notice has reached the user before the first per-track progress text
\* and before download_track is called for the first time.
C11_TruncationNoticeFirst ==
    LargePlaylist =>
        /\ SeenAt("progress") # 0 =>
              (SeenAt("truncation") # 0 /\ SeenAt("truncation") < SeenAt("progress"))
        /\ attempted # <<>> =>
              (SeenAt("truncation") # 0 /\ SeenAt("truncation") < SeenAt("progress"))

C11_Witness ==
    /\ LargePlaylist
    /\ shown = <<"processing", "truncation", "progress">>
    /\ attempted = <<1>>
    /\ Len(tracks) = Cap

\* C12: every collection metadata the resolver produced has total_tracks equal to the
\* length of its track list, and the count and the list a download handler works on
\* agree, also after the playlist was cut to 50.
C12_TotalTracksIsLength ==
    /\ InCollection => metadata.total_tracks = Len(metadata.tracks)
    /\ total_tracks = Len(tracks)

\* every character of the id is in [a-zA-Z0-9]
AlnumId(id) == \A j \in 1 .. Len(id) : id[j] \in Alnum

\* C13: classifier correctness.  For every kind, every non-empty alphanumeric id and
\* every recognized link form built around it, extract_spotify_id returns exactly that
\* kind and that id, and is_spotify_link returns true.
C13_ClassifierCorrect ==
    (cls.done /\ Len(cls.id) >= 1 /\ AlnumId(cls.id)) =>
        /\ cls.content = [type |-> cls.kind, id |-> cls.id]
        /\ cls.is_link

C13_Witness ==
    /\ cls.done
    /\ cls.template = "plain"
    /\ cls.kind = "playlist"
    /\ cls.id = <<"a", "Z", "7">>
    /\ cls.content = [type |-> "playlist", id |-> <<"a", "Z", "7">>]
    /\ cls.is_link

\* C14: for a link built from a recognized form around an id that holds a disallowed
\* character, extract_spotify_id returns None, None.
C14_DisallowedIdRejected ==
    (cls.done /\ ~AlnumId(cls.id)) => cls.content = NoContent

\* every width and height of the images is a number
SizesKnown == \A k \in 1 .. Len(art.images) :
                  art.images[k].width # Null /\ art.images[k].height # Null

C16_CleanFilenameIdempotent ==
    fname.done => fname.twice = fname.once

\* C17: the result of clean_filename holds no illegal character and no run of two or
\* more whitespace characters, has no leading or trailing whitespace, has 1 to 100
\* characters, and is the literal untitled exactly when nothing remains of the input
\* after the removal of illegal characters and the trimming.
C17_CleanFilenameShape ==
    fname.done =>
        LET r == fname.once
        IN /\ \A j \in 1 .. Len(r) : r[j] \notin Illegal
           /\ \A j \in 1 .. (Len(r) - 1) : ~(r[j] \in Whitespace /\ r[j + 1] \in Whitespace)
           /\ Len(r) >= 1
           /\ Len(r) <= MaxFilename
           /\ r[1] \notin Whitespace
           /\ r[Len(r)] \notin Whitespace
           /\ (Strip(RemoveIllegal(fname.input)) = <<>>) => r = Untitled
           /\ (Strip(RemoveIllegal(fname.input)) # <<>>) => r # Untitled

Min(a, b) == IF a < b THEN a ELSE b

\* C18: demo sample clamp.  For every count >= 0, get_random_tracks(count) on a list of
\* length L returns exactly min(count, L) entries, taken from distinct positions of the
\* list, and leaves the list as it was.
C18_SampleClamp ==
    (dsample.done /\ dsample.count >= 0) =>
        /\ Len(dsample.result) = Min(dsample.count, Len(dsample.before))
        /\ \A j \in 1 .. Len(dsample.result) :
              \E q \in 1 .. Len(dsample.before) : dsample.before[q] = dsample.result[j]
        /\ \A j, k \in 1 .. Len(dsample.result) :
              dsample.result[j] = dsample.result[k] => j = k
        /\ popular_tracks = dsample.before

C18_Witness ==
    /\ dsample.done
    /\ dsample.count = SeedLen + 2
    /\ Len(dsample.before) = SeedLen + 1
    /\ Len(dsample.result) = SeedLen + 1

\* the inbound events that end an interaction
EndingEvents == {"text", "quality", "demo", "cancel", "unrouted"}

\* the handler of an inbound event has returned and none of its outbound calls raised
EndedQuietly == unit = "bot" /\ pc = "done" /\ event \in EndingEvents /\ ~raised

\* C19: every inbound event that ends an interaction (text message, quality
\* selection, demo selection, cancel, a selection token no branch recognizes)
\* produces exactly one outcome message: once its handler has returned without a
\* failed outbound call, exactly one terminal notice has been delivered.
C19_NoSilentDrop ==
    EndedQuietly => Len(notices) = 1

\* the texts sent to the bot that is_spotify_link rejects
NonLinks == {txt \in Messages : ~IsSpotifyLink(txt)}

\* a step of handle_message for a text no link pattern matches
NonLinkMessage == unit = "bot" /\ Quiescent /\ event' = "text" /\ text' \in NonLinks

\* C20: a text message that matches no recognized link pattern leaves the
\* conversation idle: the handler returns at once, the catalog resolver and the
\* waterfall are not invoked, the stored metadata, link and demo list are
\* unchanged, and the help prompt is the one message the user receives (when the
\* reply is delivered).
C20_NonLinkTextStaysIdle ==
    [][NonLinkMessage =>
         /\ pc' = "done"
         /\ resolver_calls' = 0
         /\ attempted' = <<>>
         /\ wf_state' = "idle"
         /\ UNCHANGED <<metadata, spotify_url, demo_tracks>>
         /\ ~raised' => (notices' = <<"help_prompt">> /\ shown' = <<"help_prompt">>)]_vars

\* a non-link text was answered with the help prompt while a metadata, a link and
\* a demo list were stored
C20_Witness ==
    /\ event = "text"
    /\ pc = "done"
    /\ text \in NonLinks
    /\ notices = <<"help_prompt">>
    /\ metadata.type # "none"
    /\ spotify_url # <<>>
    /\ demo_tracks # <<>>

\* process_spotify_link has returned after get_metadata gave None
ResolutionFailed == event = "text" /\ pc = "done" /\ resolved = "nothing"

\* C21: when the resolution of a recognized link fails, the interaction ends idle
\* with exactly one failure notice (unless the exception of a failed edit left the
\* handler), the quality choices are not shown, get_metadata was called once, and
\* no step of the handler replaces the stored metadata or the stored link.
C21_ResolutionFailure ==
    /\ [](ResolutionFailed =>
            /\ resolver_calls = 1
            /\ \A k \in 1 .. Len(shown) : shown[k] # "quality_menu"
            /\ attempted = <<>>
            /\ ~escaped => notices \in {<<"metadata_failed">>, <<"link_error">>})
    /\ [][(event' = "text" /\ resolved' = "nothing") =>
             UNCHANGED <<metadata, spotify_url>>]_vars

\* a link was sent while a metadata was stored, get_metadata returned None and the
\* failure notice was delivered
C21_Witness ==
    /\ ResolutionFailed
    /\ notices = <<"metadata_failed">>
    /\ metadata.type # "none"

\* the bitrate hint the settings table gives for a tier; 192 for a text outside it
ExpectedHint(t) ==
    IF t \in DOMAIN QualitySettings THEN QualitySettings[t].bitrate ELSE MediumBitrate

\* the text of callback data after "quality_"
TierOf(data) == SubSeq(data, Len(QualityPrefix) + 1, Len(data))

\* C22: the tier chosen by the user reaches the fetch step as the bitrate hint of
\* the settings table (high 320, medium 192, low 128) with mp3 as the format, and
\* a tier text outside the table gets the hint 192 instead of failing; in the bot,
\* every fetch is made with the hint of the tier its handler was given.
C22_QualityMapping ==
    /\ tier.done =>
          /\ tier.quality = TierOf(tier.data)
          /\ tier.hint = ExpectedHint(TierOf(tier.data))
          /\ tier.format = Mp3
          /\ \A t \in DOMAIN QualitySettings : QualitySettings[t].format = tier.format
    /\ (unit = "bot" /\ wf_fetch_raw # "none") =>
          /\ wf_hint = ExpectedHint(quality)
          /\ event = "demo" => quality = Medium
          /\ event = "quality" => \E data \in Tokens : /\ StartsWith(data, QualityPrefix)
                                                       /\ quality = TierOf(data)

\* a selection whose tier is not in the table reached the fetch, which wrote a file
C22_Witness ==
    /\ event = "quality"
    /\ quality \notin DOMAIN QualitySettings
    /\ wf_fetch_raw = "written"
    /\ wf_hint = MediumBitrate

\* the handler of a demo selection that names an entry of the stored list has
\* returned and none of its outbound calls raised
DemoSelectionDone ==
    /\ event = "demo"
    /\ pc = "done"
    /\ demo_index >= 0
    /\ demo_index < Len(demo_tracks)
    /\ ~raised

\* C23: a demo selection never shows the quality choices, always invokes the
\* waterfall with the tier medium, and works from the selected entry's known name,
\* artist and link without a call of the catalog resolver.
C23_DemoShortCircuit ==
    DemoSelectionDone =>
        /\ \A k \in 1 .. Len(shown) : shown[k] # "quality_menu"
        /\ Len(attempted) = 1
        /\ quality = Medium
        /\ resolver_calls = 0

\* RenderFriendlyDownloader.download_track has returned after the archive and the
\* two other real sources gave nothing
RealSourcesFailed ==
    /\ rf_pc = "done"
    /\ Len(rf_invoked) >= 3
    /\ SubSeq(rf_invoked, 1, 3) = SubSeq(RfSources, 1, 3)

\* C24: when every real source has failed for a track the downloader returns
\* failure and no synthesized placeholder file, in SimpleYouTubeDownloader (used
\* for single tracks and collections alike) and in RenderFriendlyDownloader.
C24_NoPlaceholder ==
    /\ (wf_state = "returned" /\ AllQueriesSearched) => audio_file = NoFile
    /\ RealSourcesFailed => (rf_result = NoFile /\ RfPath \notin DOMAIN files)

\* C25: the query templates of search_and_download are searched in their fixed
\* order; a query is searched only while no earlier one has produced a locator;
\* the fetch is entered only from the search that produced the first locator, is
\* made on that locator, and ends the call, so that exactly one fetch is made.
C25_QueryOrder ==
    [][/\ wf_searches' # wf_searches =>
             \/ wf_searches' = <<>>                               \* a new call
             \/ /\ wf_first = 0
                /\ wf_searches' = Append(wf_searches, Len(wf_searches) + 1)
                /\ Len(wf_searches') <= NumQueries + 1
       /\ (pc' = "wf_fetch" /\ pc # "wf_fetch") =>
             /\ wf_last' = "found"
             /\ wf_first' = Len(wf_searches')
             /\ wf_url' = wf_first'
             /\ wf_fetched' = 0
       /\ pc = "wf_fetch" =>
             /\ wf_state' = "returned"
             /\ wf_fetched' = wf_first
             /\ wf_searches' = wf_searches]_vars

\* the fourth template was the first to produce a locator and the one fetch,
\* made on it, wrote the file
C25_Witness ==
    /\ wf_state = "returned"
    /\ wf_searches = <<1, 2, 3, 4>>
    /\ wf_first = 4
    /\ wf_fetched = 4
    /\ wf_fetch_raw = "written"
    /\ audio_file # NoFile

\* the positions of tracks.items whose nested object is a playable track
Playable(items) ==
    {j \in 1 .. Len(items) : items[j].present /\ items[j].track.type = "track"}

\* C26: playlist resolution skips every entry whose nested item is absent or is
\* not a playable track and keeps all others in their original order; such an
\* entry never makes the resolution fail.
C26_PlaylistSkips ==
    plres.done =>
        LET ok == Playable(plres.items)
            r == plres.result
        IN /\ ~r.failed
           /\ Len(r.tracks) = Cardinality(ok)
           /\ r.total_tracks = Cardinality(ok)
           /\ \A j \in ok : r.tracks[Cardinality({m \in ok : m <= j})] = j

\* an absent item, then a track, then an episode: the one track is the result
C26_Witness ==
    /\ plres.done
    /\ Len(plres.items) = 3
    /\ ~plres.items[1].present
    /\ plres.items[3].track.type = "episode" /\ plres.items[3].present
    /\ plres.result.tracks = <<2>>

\* the place of a kind in the order track, album, playlist
Precedence(kind) == CHOOSE k \in 1 .. 3 : Kinds[k] = kind

\* C27: for a text with recognizable links of two kinds extract_spotify_id returns
\* the kind that comes first in the order track, album, playlist, with the id of
\* a link of that kind, wherever the two links stand in the text.
C27_ClassifierPrecedence ==
    (mix.done /\ mix.kinds[1] # mix.kinds[2]) =>
        LET w == IF Precedence(mix.kinds[1]) < Precedence(mix.kinds[2]) THEN 1 ELSE 2
        IN /\ mix.content.type = mix.kinds[w]
           /\ mix.content.id = MixIds[w]

\* a playlist link followed by a track link: the track link is returned
C27_Witness ==
    /\ mix.done
    /\ mix.kinds = <<"playlist", "track">>
    /\ mix.content = [type |-> "track", id |-> MixIds[2]]

\* C28: the demo catalog is append-only.  After any sequence of add_custom_track,
\* get_random_tracks, search_demo_tracks and get_track_by_index calls the seed
\* entries are at their positions, the appended entries follow them in insertion
\* order, and get_track_by_index(i) returned the entry at position i when
\* 0 <= i < len and None otherwise.
C28_CatalogAppendOnly ==
    unit = "catalog" =>
        /\ Len(popular_tracks) = SeedLen + Len(clog.appended)
        /\ SubSeq(popular_tracks, 1, SeedLen) = SeedTracks
        /\ SubSeq(popular_tracks, SeedLen + 1, Len(popular_tracks)) = clog.appended
        /\ clog.asked =>
              IF 0 <= clog.index /\ clog.index < clog.len
              THEN clog.got = popular_tracks[clog.index + 1]
              ELSE clog.got = NoEntry

\* two entries were appended, a sample and a search were made between them, and the
\* second appended entry was then read by its index
C28_Witness ==
    /\ unit = "catalog"
    /\ Len(clog.appended) = 2
    /\ clog.appended[1] # clog.appended[2]
    /\ clog.asked
    /\ clog.index = SeedLen + 1
    /\ clog.got = clog.appended[2]

\* a conversation that was handed a local file and has not finished sending it
Holding(c) == own.conv[c].pc \in {"holding", "sending"}

NetworkPending(c) == loop.pc[c] \in {"resolving", "searching", "fetching", "artwork"}

\* C30: while a network call of one conversation is pending, an inbound event of a
\* different conversation can still be accepted and handled.
C30_NoStall ==
    \A c \in Conversations : \A d \in Conversations \ {c} :
        (NetworkPending(c) /\ loop.pc[d] \in {"idle", "menu"}) => Accepts(d)

\* C31: the two link recognizers agree.  For every text, is_spotify_link is true
\* exactly when extract_spotify_id returns a kind and an id, so the "Invalid Spotify
\* Link" notice of process_spotify_link is never given for a text that
\* handle_message forwarded.
C31_RecognizersAgree ==
    /\ agr.done => (agr.is_link <=> agr.content # NoContent)
    /\ cls.done => (cls.is_link <=> cls.content # NoContent)
    /\ \A txt \in Messages : IsLinkOf[txt] <=> ContentOf[txt] # NoContent
    /\ \A k \in 1 .. Len(notices) : notices[k] # "invalid_link"

\* a link without a scheme, after a hyphen: both recognizers find it
C31_Witness ==
    /\ agr.done
    /\ agr.text = <<"-">> \o SpotifyCom \o Slash \o KindText("track") \o Slash \o <<"a">>
    /\ agr.is_link
    /\ agr.content = [type |-> "track", id |-> <<"a">>]

\* C32: a quality selection downloads the content whose summary is shown in the
\* message that carries the pressed button.
C32_QualityOfPressedMessage ==
    ses.used.kind = "quality" => ses.used.got = ses.used.shown

\* C33: a demo selection processes the track displayed on the pressed button.
C33_DemoOfPressedMessage ==
    ses.used.kind = "demo" => ses.used.got = ses.used.shown

\* the events whose handlers hold no download: a text, a menu button (help, start,
\* demo list), cancel, a token no branch takes
QuietEvents == {"none", "text", "menu", "cancel", "unrouted"}

\* C34: send_audio is called only in a handler run in which the conversation holds
\* resolved metadata and download_track has returned a path that existed when it was
\* checked; a text, help, start, cancel or demo-list event never leads to send_audio.
C34_SendOnlyWithFile ==
    /\ [](event \in QuietEvents => send_count = 0)
    /\ [][send_count' > send_count =>
             /\ event \in {"quality", "demo"}
             /\ HasMetadata(metadata)
             /\ wf_state = "returned"
             /\ audio_file # NoFile
             /\ audio_file \in DOMAIN files]_vars

\* a quality selection has sent the second track of a collection
C34_Witness ==
    /\ event = "quality"
    /\ InCollection
    /\ send_count = 2
    /\ send_done = 2

\* the handler a button is meant for
HandlerOf(data) ==
    IF data = DemoSongsToken THEN "show_demo_songs"
    ELSE IF data = HelpToken THEN "show_help"
    ELSE IF data = BackStartToken THEN "show_start_menu"
    ELSE IF data = CancelToken THEN "cancel"
    ELSE IF data \in {QualityPrefix \o q : q \in {High, Medium, Low}}
         THEN "process_quality_selection"
    ELSE "process_demo_song"

\* C35: callback dispatch is closed and unambiguous.  Every callback data a keyboard
\* of the bot can emit is taken by one branch of handle_callback, the one of its
\* handler, and demo_songs goes to the demo list, never to the demo-track selection.
C35_DispatchClosed ==
    /\ disp.done => (disp.route # "none" /\ disp.route = HandlerOf(disp.data))
    /\ \A data \in Tokens \cap EmittedTokens : RouteOf[data] = HandlerOf(data)

\* the demo_songs button was pressed and the demo list was shown
C35_Witness ==
    /\ disp.done
    /\ disp.data = DemoSongsToken
    /\ disp.route = "show_demo_songs"

\* no track id occurs twice among the download_track calls of a handler run
NoRepeats(seq) == \A j, k \in 1 .. Len(seq) : seq[j] = seq[k] => j = k

\* a collection download is in its loop / its final report is the latest message
CollectionStarted == pc = "col_progress"
FinalReport == last_msg = "collection_complete"

\* the waterfall part of C36: download_track returns after at most NumQueries + 1
\* searches and one fetch, which is the last call it makes
WaterfallTerminates ==
    /\ [](Len(wf_searches) <= NumQueries + 1)
    /\ [](wf_state = "running" => wf_fetched = 0)
    /\ (wf_state = "running") ~> (wf_state = "returned")

\* C36: waterfall termination.  When every search and fetch call returns or times
\* out, download_track eventually returns after at most 7 searches and at most one
\* fetch, and a collection download eventually emits its final report after at most
\* one download_track call per track.
C36_Termination ==
    /\ WaterfallTerminates
    /\ [](NoRepeats(attempted))
    /\ CollectionStarted ~> FinalReport

\* the frame part of C37: a cancel event calls no resolver, waterfall or send_audio
CancelStartsNothing ==
    event = "cancel" =>
        /\ resolver_calls = 0
        /\ wf_state = "idle"
        /\ attempted = <<>>
        /\ send_count = 0

\* a quality selection for a cancelled content starts no download
CancelledStaysCancelled ==
    (ses.used.kind = "quality" /\ ses.used.shown \in ses.cancelled) => ~ses.used.started

\* C37: cancel starts nothing and discards the pending selection.  A cancel event
\* invokes no resolver, waterfall or send_audio call, the stored metadata of the
\* cancelled interaction is cleared, and a later quality selection for the cancelled
\* link starts no download.
C37_CancelDiscards ==
    /\ CancelStartsNothing
    /\ ses.used.kind = "cancel" => ses.metadata # ses.used.shown
    /\ CancelledStaysCancelled
====
